---- MODULE Spec2Model ----
(***************************************************************************)
(* Model of the code-languages plugin (CodeLanguagesPlugin): the parsing   *)
(* of the configured language lists, the per-day usage statistics with     *)
(* their expiry, the settings draft with confirm/destroy, and the two      *)
(* event handlers languageUpdate (ordering request) and languageChange     *)
(* (selection notification).                                               *)
(*                                                                         *)
(* A string is the sequence of its UTF-16 code units (ASCII here), so that *)
(* trimming, escaping, lower-casing and comparing are computed and not     *)
(* assumed.  A language list is a sequence of strings.                     *)
(***************************************************************************)
EXTENDS Integers, Sequences, FiniteSets, TLC

VARIABLES
    config,                       \* this.config
    tempConfig,                   \* this.tempConfig (the settings draft)
    cachedCustomOrderLanguages,   \* this.cachedCustomOrderLanguages
    cachedOtherCustomLanguages,   \* this.cachedOtherCustomLanguages
    cachedExcludedLanguages,      \* this.cachedExcludedLanguages
    statistics,                   \* this.statistics
    saved,                        \* documents handed to saveData, by name
    now,                          \* the clock read by new Date(), in ticks
    event,                        \* detail of the ordering request last handled
    selectionLog                  \* the selection notifications handled so far

vars == <<config, tempConfig, cachedCustomOrderLanguages, cachedOtherCustomLanguages,
          cachedExcludedLanguages, statistics, saved, now, event, selectionLog>>

----------------------------------------------------------------------------
(* Model bounds *)

\* the clock stops at this tick
MaxNow == 11
\* the longest stored list string of which every spelling is tried
MaxRawLen == 3
\* no selection is recorded once this many uses are stored
MaxStored == 3
\* no selection is recorded once this many are logged
MaxLogged == 4
\* the same limit where only the order of the languages matters
MaxOrderingStored == 2
\* a stored list string has at most this many segments more than the limit
MaxExtraParts == 2
\* clock ticks in one UTC day (24 * 60 * 60 * 1000 ms in the code)
TicksPerDay == 2

----------------------------------------------------------------------------
(* Strings *)

\* String.prototype.trim strips these (ASCII white space and line ends)
WhiteSpace == {9, 10, 11, 12, 13, 32}

\* the strings used as inputs, spelled out
Str_py == <<112, 121>>
Str_Py == <<80, 121>>
Str_pyc == <<112, 121, 99>>
Str_cp == <<99, 112>>
Str_ap == <<97, 112>>
Str_js == <<106, 115>>
Str_p == <<112>>
Str_P == <<80>>
Str_PY == <<80, 89>>
Str_J == <<74>>
Str_blank == <<32, 9>>
Str_amp == <<38, 97, 109, 112, 59>>
Str_lt == <<38, 108, 116, 59>>

\* a ++ "," ++ b
CommaJoin(a, b) == a \o <<44>> \o b

\* String.prototype.toLowerCase on ASCII
toLowerCase(s) == [i \in 1..Len(s) |-> IF s[i] \in 65..90 THEN s[i] + 32 ELSE s[i]]

\* String.prototype.startsWith
startsWith(s, q) == Len(q) <= Len(s) /\ SubSeq(s, 1, Len(q)) = q

\* String.prototype.includes
strIncludes(s, q) == \E i \in 0..(Len(s) - Len(q)) : SubSeq(s, i + 1, i + Len(q)) = q

\* the < of two strings: code unit by code unit, a proper prefix is smaller
RECURSIVE strLess(_, _)
strLess(a, b) ==
    IF b = <<>> THEN FALSE
    ELSE IF a = <<>> THEN TRUE
    ELSE IF a[1] # b[1] THEN a[1] < b[1]
    ELSE strLess(Tail(a), Tail(b))

\* String.prototype.trim
trim(s) ==
    LET keep == {i \in 1..Len(s) : s[i] \notin WhiteSpace}
    IN  IF keep = {} THEN <<>>
        ELSE SubSeq(s, CHOOSE i \in keep : \A j \in keep : i <= j,
                       CHOOSE i \in keep : \A j \in keep : j <= i)

\* Array.prototype.includes
includes(list, x) == \E i \in 1..Len(list) : list[i] = x

\* concatenation of a sequence of sequences, in order
RECURSIVE Flatten(_)
Flatten(ss) == IF ss = <<>> THEN <<>> ELSE Head(ss) \o Flatten(Tail(ss))

(* Array.prototype.sort is a stable sort.  With a comparator that is a     *)
(* strict weak order every stable sort gives the same list; it is computed *)
(* here by insertion: each element goes before the first element of the    *)
(* sorted part that it precedes.                                           *)

\* Array.prototype.sort() without a comparator: ascending by code units
sortDefault(list) ==
    LET RECURSIVE insert(_, _)
        insert(x, sorted) ==
            IF sorted = <<>> THEN <<x>>
            ELSE IF strLess(x, Head(sorted)) THEN <<x>> \o sorted
            ELSE <<Head(sorted)>> \o insert(x, Tail(sorted))
        RECURSIVE sortFirst(_)
        sortFirst(k) == IF k = 0 THEN <<>> ELSE insert(list[k], sortFirst(k - 1))
    IN  sortFirst(Len(list))

----------------------------------------------------------------------------
(* parseLanguagesInput *)

\* escapeHtml with patterns that are not global: the first & and the first <
escapeHtml_firstOnly(html) ==
    LET amps == {i \in 1..Len(html) : html[i] = 38}
        firstAmp == IF amps = {} THEN 0 ELSE CHOOSE i \in amps : \A j \in amps : i <= j
        lts == {i \in 1..Len(html) : html[i] = 60}
        firstLt == IF lts = {} THEN 0 ELSE CHOOSE i \in lts : \A j \in lts : i <= j
    IN  Flatten([i \in 1..Len(html) |->
                    IF i = firstAmp THEN Str_amp
                    ELSE IF i = firstLt THEN Str_lt
                    ELSE <<html[i]>>])

\* escapeHtml: & becomes &amp; and < becomes &lt;
escapeHtml(html) ==
    Flatten([i \in 1..Len(html) |->
                IF html[i] = 38 THEN Str_amp
                ELSE IF html[i] = 60 THEN Str_lt
                ELSE <<html[i]>>])

\* String.prototype.split(','): the segments between the commas
split(input) ==
    LET n == Len(input)
        commas == SelectSeq([i \in 1..n |-> i], LAMBDA i : input[i] = 44)
        cuts == <<0>> \o commas \o <<n + 1>>
    IN  [k \in 1..(Len(commas) + 1) |-> SubSeq(input, cuts[k] + 1, cuts[k + 1] - 1)]

\* the limit on the number of segments
MaxParts == 300

\* the map step: trim, then backtick and space to underscore, then escapeHtml
cleanPart(part) ==
    LET trimmed == trim(part)
        replaced == [i \in 1..Len(trimmed) |->
                        IF trimmed[i] \in {96, 32} THEN 95 ELSE trimmed[i]]
    IN  escapeHtml(replaced)

\* the parse keeping only the first of the tokens that are equal
parseLanguagesInput_deduplicated(input) ==
    IF input = <<>> THEN <<>>
    ELSE LET all == split(input)
             parts == SubSeq(all, 1, IF Len(all) < MaxParts THEN Len(all) ELSE MaxParts)
             mapped == [i \in 1..Len(parts) |-> cleanPart(parts[i])]
             first == {i \in 1..Len(mapped) : \A j \in 1..(i - 1) : mapped[j] # mapped[i]}
         IN  SelectSeq([i \in 1..Len(mapped) |-> IF i \in first THEN mapped[i] ELSE <<>>],
                       LAMBDA lang : Len(lang) > 0)

\* the parse with the limit applied to the tokens left by the filter
parseLanguagesInput_limitAfterFilter(input) ==
    IF input = <<>> THEN <<>>
    ELSE LET all == split(input)
             mapped == [i \in 1..Len(all) |-> cleanPart(all[i])]
             kept == SelectSeq(mapped, LAMBDA lang : Len(lang) > 0)
         IN  SubSeq(kept, 1, IF Len(kept) < MaxParts THEN Len(kept) ELSE MaxParts)

\* parseLanguagesInput (lines 125-147)
parseLanguagesInput(input) ==
    IF input = <<>> THEN <<>>
    ELSE LET all == split(input)
             parts == SubSeq(all, 1, IF Len(all) < MaxParts THEN Len(all) ELSE MaxParts)
             mapped == [i \in 1..Len(parts) |-> cleanPart(parts[i])]
         IN  SelectSeq(mapped, LAMBDA lang : Len(lang) > 0)

----------------------------------------------------------------------------
(* Configuration *)

DefaultTopCount == 5
DefaultDaysRange == 30

\* a stored configuration document with nothing in it ({} after ||=)
EmptyConfigDoc ==
    [sortMode |-> "", customOrder |-> <<>>, frequencyTopCount |-> 0,
     frequencyDaysRange |-> 0, otherCustomLanguages |-> <<>>, excludedLanguages |-> <<>>]

\* onload without its defaults: the stored document as it is
withDefaults_asStored(doc) == doc

\* the defaults of onload: x ||= d keeps x unless it is falsy
withDefaults(doc) ==
    [sortMode |-> IF doc.sortMode = "" THEN "frequency" ELSE doc.sortMode,
     customOrder |-> doc.customOrder,
     frequencyTopCount |->
         IF doc.frequencyTopCount = 0 THEN DefaultTopCount ELSE doc.frequencyTopCount,
     frequencyDaysRange |->
         IF doc.frequencyDaysRange = 0 THEN DefaultDaysRange ELSE doc.frequencyDaysRange,
     otherCustomLanguages |-> doc.otherCustomLanguages,
     excludedLanguages |-> doc.excludedLanguages]

EmptyStatistics == [frequencyOrder |-> <<>>, languages |-> <<>>]

NoEvent == [handled |-> FALSE, input |-> <<>>, value |-> <<>>, languages |-> <<>>]

NothingSaved == [config |-> <<>>, statistics |-> <<>>]

\* onload with the stored configuration document doc and no stored statistics
onload(doc) ==
    /\ config = withDefaults(doc)
    /\ tempConfig = config
    /\ cachedCustomOrderLanguages = parseLanguagesInput(config.customOrder)
    /\ cachedOtherCustomLanguages = parseLanguagesInput(config.otherCustomLanguages)
    /\ cachedExcludedLanguages = parseLanguagesInput(config.excludedLanguages)
    /\ statistics = EmptyStatistics
    /\ saved = NothingSaved
    /\ now = 0
    /\ event = NoEvent

----------------------------------------------------------------------------
(* Usage statistics *)

(* statistics.languages is an object keyed by language; its keys are kept  *)
(* in insertion order, which is the order of for...in and Object.keys.     *)
(* It is modelled by the sequence of its entries                           *)
(* [language, totalCount, dates], dates being the function from the        *)
(* stored day keys to their counts.                                        *)

\* toISOString().split('T')[0] of the instant t: its UTC day.  Day keys are
\* compared as strings; YYYY-MM-DD strings order as the days do.
dateString(t) == t \div TicksPerDay

\* getCurrentDateString
getCurrentDateString == dateString(now)

RECURSIVE sumDates(_, _)
sumDates(dates, days) ==
    IF days = {} THEN 0
    ELSE LET d == CHOOSE x \in days : TRUE
         IN  dates[d] + sumDates(dates, days \ {d})

\* Object.keys(statistics.languages)
languageKeys(languages) == [i \in 1..Len(languages) |-> languages[i].language]

hasLanguage(languages, language) == \E i \in 1..Len(languages) : languages[i].language = language

languageStats(languages, language) ==
    languages[CHOOSE i \in 1..Len(languages) : languages[i].language = language]

\* updateFrequencyOrder without its sort: the keys in insertion order
updateFrequencyOrder_unsorted(languages) == languageKeys(languages)

\* updateFrequencyOrder: the keys, sorted (stably) with the comparator
\* languages[b].totalCount - languages[a].totalCount
updateFrequencyOrder(languages) ==
    LET RECURSIVE insert(_, _)
        insert(x, sorted) ==
            IF sorted = <<>> THEN <<x>>
            ELSE IF Head(sorted).totalCount - x.totalCount < 0 THEN <<x>> \o sorted
            ELSE <<Head(sorted)>> \o insert(x, Tail(sorted))
        RECURSIVE sortFirst(_)
        sortFirst(k) == IF k = 0 THEN <<>> ELSE insert(languages[k], sortFirst(k - 1))
    IN  languageKeys(sortFirst(Len(languages)))

\* the loop body with the total left as it was
cleanupLanguage_staleTotal(stats, cutoffDateString) ==
    LET keptDays == {date \in DOMAIN stats.dates : ~(date < cutoffDateString)}
    IN  [language |-> stats.language,
         totalCount |-> IF keptDays = {} THEN 0 ELSE stats.totalCount,
         dates |-> [date \in keptDays |-> stats.dates[date]]]

\* the loop body deleting the day of the cutoff too
cleanupLanguage_dropsCutoffDay(stats, cutoffDateString) ==
    LET keptDays == {date \in DOMAIN stats.dates : cutoffDateString < date}
    IN  [language |-> stats.language,
         totalCount |-> sumDates(stats.dates, keptDays),
         dates |-> [date \in keptDays |-> stats.dates[date]]]

\* the loop body counting the entries it deletes too
cleanupLanguage_countsDeleted(stats, cutoffDateString) ==
    LET keptDays == {date \in DOMAIN stats.dates : ~(date < cutoffDateString)}
    IN  [language |-> stats.language,
         totalCount |-> sumDates(stats.dates, DOMAIN stats.dates),
         dates |-> [date \in keptDays |-> stats.dates[date]]]

\* the loop body adding the kept entries to the total it finds
cleanupLanguage_accumulates(stats, cutoffDateString) ==
    LET keptDays == {date \in DOMAIN stats.dates : ~(date < cutoffDateString)}
    IN  [language |-> stats.language,
         totalCount |-> stats.totalCount + sumDates(stats.dates, keptDays),
         dates |-> [date \in keptDays |-> stats.dates[date]]]

\* the loop body keeping the day before the cutoff too
cleanupLanguage_keepsDayBefore(stats, cutoffDateString) ==
    LET keptDays == {date \in DOMAIN stats.dates : ~(date < cutoffDateString - 1)}
    IN  [language |-> stats.language,
         totalCount |-> sumDates(stats.dates, keptDays),
         dates |-> [date \in keptDays |-> stats.dates[date]]]

\* the loop body of cleanupExpiredStatistics for one language
cleanupLanguage(stats, cutoffDateString) ==
    LET keptDays == {date \in DOMAIN stats.dates : ~(date < cutoffDateString)}
    IN  [language |-> stats.language,
         totalCount |-> sumDates(stats.dates, keptDays),
         dates |-> [date \in keptDays |-> stats.dates[date]]]

\* cleanupExpiredStatistics without the removal of the languages left empty
cleanupExpiredStatistics_keepsEmpty(stat, t, frequencyDaysRange) ==
    LET cutoffDateString == dateString(t - frequencyDaysRange * TicksPerDay)
        cleaned == [i \in 1..Len(stat.languages) |->
                       cleanupLanguage(stat.languages[i], cutoffDateString)]
    IN  [frequencyOrder |-> updateFrequencyOrder(cleaned), languages |-> cleaned]

\* cleanupExpiredStatistics at instant t with the committed frequencyDaysRange
cleanupExpiredStatistics(stat, t, frequencyDaysRange) ==
    LET cutoffDateString == dateString(t - frequencyDaysRange * TicksPerDay)
        cleaned == [i \in 1..Len(stat.languages) |->
                       cleanupLanguage(stat.languages[i], cutoffDateString)]
        remaining == SelectSeq(cleaned, LAMBDA stats : stats.totalCount # 0)
    IN  [frequencyOrder |-> updateFrequencyOrder(remaining), languages |-> remaining]

\* the recording branch incrementing the day entry of every tracked language
recordLanguage_bumpsAll(stat, language, currentDate) ==
    LET initialised ==
            IF hasLanguage(stat.languages, language) THEN stat.languages
            ELSE Append(stat.languages,
                        [language |-> language, totalCount |-> 0, dates |-> <<>>])
        bump(stats) ==
            LET oldCount == IF currentDate \in DOMAIN stats.dates
                            THEN stats.dates[currentDate] ELSE 0
            IN  [language |-> stats.language,
                 totalCount |-> stats.totalCount + 1,
                 dates |-> [date \in DOMAIN stats.dates \cup {currentDate} |->
                               IF date = currentDate THEN oldCount + 1
                               ELSE stats.dates[date]]]
        languages == [i \in 1..Len(initialised) |-> bump(initialised[i])]
    IN  [frequencyOrder |-> updateFrequencyOrder(languages), languages |-> languages]

\* the recording branch of languageChange (lines 314-332)
recordLanguage(stat, language, currentDate) ==
    LET initialised ==
            IF hasLanguage(stat.languages, language) THEN stat.languages
            ELSE Append(stat.languages,
                        [language |-> language, totalCount |-> 0, dates |-> <<>>])
        bump(stats) ==
            IF stats.language # language THEN stats
            ELSE LET oldCount == IF currentDate \in DOMAIN stats.dates
                                 THEN stats.dates[currentDate] ELSE 0
                 IN  [language |-> stats.language,
                      totalCount |-> stats.totalCount + 1,
                      dates |-> [date \in DOMAIN stats.dates \cup {currentDate} |->
                                    IF date = currentDate THEN oldCount + 1
                                    ELSE stats.dates[date]]]
        languages == [i \in 1..Len(initialised) |-> bump(initialised[i])]
    IN  [frequencyOrder |-> updateFrequencyOrder(languages), languages |-> languages]

\* all uses stored, over all languages and days
RECURSIVE storedUses(_)
storedUses(languages) ==
    IF languages = <<>> THEN 0
    ELSE sumDates(Head(languages).dates, DOMAIN Head(languages).dates)
         + storedUses(Tail(languages))

(* statistics.languages is a plain object: a name that Object.prototype    *)
(* defines reads as the inherited member while the object has no key of    *)
(* that name.  The member is truthy, so line 317 creates no entry, the     *)
(* member has no dates, and line 327 throws a TypeError.                   *)
Str_constructor == <<99, 111, 110, 115, 116, 114, 117, 99, 116, 111, 114>>
Str_toString == <<116, 111, 83, 116, 114, 105, 110, 103>>
Str_proto == <<95, 95, 112, 114, 111, 116, 111, 95, 95>>

\* names that Object.prototype defines (those used here)
ObjectPrototypeKeys == {Str_constructor, Str_toString, Str_proto}

\* statistics.languages[language] reads an inherited member
readsInherited(languages, language) ==
    language \in ObjectPrototypeKeys /\ ~hasLanguage(languages, language)

(* The log of the selection notifications: for every language and day the  *)
(* number of times lines 327-329 counted a selection, the language of the  *)
(* last notification and whether its handler threw.  It is not a field of  *)
(* the plugin; it is kept only in the runs that start with it switched on. *)
LogOff == [kept |-> FALSE, counts |-> <<>>, notified |-> FALSE, language |-> <<>>,
           thrown |-> FALSE]
LogOn == [kept |-> TRUE, counts |-> <<>>, notified |-> FALSE, language |-> <<>>,
          thrown |-> FALSE]

\* the number of selections counted in all
loggedUses(log) == sumDates(log.counts, DOMAIN log.counts)

\* the number of selections of a language counted on a day
loggedCount(log, language, day) ==
    IF <<language, day>> \in DOMAIN log.counts THEN log.counts[<<language, day>>] ELSE 0

logSelection(log, language, day, counted, thrown) ==
    IF ~log.kept THEN log
    ELSE [kept |-> TRUE,
          counts |-> IF ~counted THEN log.counts
                     ELSE [key \in DOMAIN log.counts \cup {<<language, day>>} |->
                              IF key = <<language, day>>
                              THEN loggedCount(log, language, day) + 1
                              ELSE log.counts[key]],
          notified |-> TRUE,
          language |-> language,
          thrown |-> thrown]

\* the statistics languageChange leaves when it is handled at instant t with
\* the window frequencyDaysRange: those it found when line 327 throws, else
\* the recorded ones (if the language is not blank) after the pruning pass
changedStatistics(stat, language, t, frequencyDaysRange) ==
    LET recording == language # <<>> /\ trim(language) # <<>>
        thrown == recording /\ readsInherited(stat.languages, language)
        recorded == IF recording /\ ~thrown
                    THEN recordLanguage(stat, language, dateString(t))
                    ELSE stat
    IN  IF thrown THEN stat
        ELSE cleanupExpiredStatistics(recorded, t, frequencyDaysRange)

\* languageChange with the test of line 313 reduced to `language`
languageChange_recordsBlank(language, maxStored) ==
    /\ LET recording == language # <<>>
           thrown == recording /\ readsInherited(statistics.languages, language)
           counted == recording /\ ~thrown
           recorded == IF counted
                       THEN recordLanguage(statistics, language, getCurrentDateString)
                       ELSE statistics
       IN  /\ counted => storedUses(statistics.languages) < maxStored
           /\ saved' = IF counted THEN [saved EXCEPT !.statistics = recorded] ELSE saved
           /\ statistics' =
                  IF thrown THEN statistics
                  ELSE cleanupExpiredStatistics(recorded, now, config.frequencyDaysRange)
           /\ selectionLog' =
                  logSelection(selectionLog, language, getCurrentDateString, counted, thrown)
    /\ event' = NoEvent
    /\ UNCHANGED <<config, tempConfig, cachedCustomOrderLanguages,
                   cachedOtherCustomLanguages, cachedExcludedLanguages, now>>

\* languageChange: the handler of code-language-change
\* (maxStored bounds the model: a use is recorded while fewer are stored)
languageChange(language, maxStored) ==
    /\ LET recording == language # <<>> /\ trim(language) # <<>>
           thrown == recording /\ readsInherited(statistics.languages, language)
           counted == recording /\ ~thrown
           recorded == IF counted
                       THEN recordLanguage(statistics, language, getCurrentDateString)
                       ELSE statistics
       IN  /\ counted => storedUses(statistics.languages) < maxStored
           /\ saved' = IF counted THEN [saved EXCEPT !.statistics = recorded] ELSE saved
           /\ statistics' =
                  IF thrown THEN statistics
                  ELSE cleanupExpiredStatistics(recorded, now, config.frequencyDaysRange)
           /\ selectionLog' =
                  logSelection(selectionLog, language, getCurrentDateString, counted, thrown)
    /\ event' = NoEvent
    /\ UNCHANGED <<config, tempConfig, cachedCustomOrderLanguages,
                   cachedOtherCustomLanguages, cachedExcludedLanguages, now>>

\* time passes between two events
Tick ==
    /\ now < MaxNow
    /\ now' = now + 1
    /\ event' = NoEvent
    /\ UNCHANGED <<config, tempConfig, cachedCustomOrderLanguages,
                   cachedOtherCustomLanguages, cachedExcludedLanguages, statistics, saved,
                   selectionLog>>

----------------------------------------------------------------------------
(* languageUpdate: the handler of code-language-update *)

\* the comparator without its length rule
matchCompare_noLength(a, b, lowerCaseValue) ==
    LET aStartsWith == startsWith(toLowerCase(a), lowerCaseValue)
        bStartsWith == startsWith(toLowerCase(b), lowerCaseValue)
    IN  IF aStartsWith /\ bStartsWith THEN 0
        ELSE IF aStartsWith THEN 0 - 1
        ELSE IF bStartsWith THEN 1
        ELSE 0

\* the comparator of the match sort (lines 254-266)
matchCompare(a, b, lowerCaseValue) ==
    LET aStartsWith == startsWith(toLowerCase(a), lowerCaseValue)
        bStartsWith == startsWith(toLowerCase(b), lowerCaseValue)
    IN  IF aStartsWith /\ bStartsWith THEN Len(a) - Len(b)
        ELSE IF aStartsWith THEN 0 - 1
        ELSE IF bStartsWith THEN 1
        ELSE 0

\* Array.prototype.sort with matchCompare
sortMatches(list, lowerCaseValue) ==
    LET RECURSIVE insert(_, _)
        insert(x, sorted) ==
            IF sorted = <<>> THEN <<x>>
            ELSE IF matchCompare(x, Head(sorted), lowerCaseValue) < 0 THEN <<x>> \o sorted
            ELSE <<Head(sorted)>> \o insert(x, Tail(sorted))
        RECURSIVE sortFirst(_)
        sortFirst(k) == IF k = 0 THEN <<>> ELSE insert(list[k], sortFirst(k - 1))
    IN  sortFirst(Len(list))

\* the searched list with the candidates not filtered by excludedLanguages
matchPool_noExclusion(sortMode, customOrderLanguages, otherCustomLanguages, excludedLanguages, languages) ==
    IF sortMode = "custom"
    THEN customOrderLanguages
         \o SelectSeq(otherCustomLanguages, LAMBDA lang : ~includes(customOrderLanguages, lang))
         \o SelectSeq(languages, LAMBDA lang :
                /\ ~includes(customOrderLanguages, lang)
                /\ ~includes(otherCustomLanguages, lang))
    ELSE otherCustomLanguages
         \o SelectSeq(languages, LAMBDA lang : ~includes(otherCustomLanguages, lang))

\* the list that is searched when a query is given (lines 242-250)
matchPool(sortMode, customOrderLanguages, otherCustomLanguages, excludedLanguages, languages) ==
    IF sortMode = "custom"
    THEN customOrderLanguages
         \o SelectSeq(otherCustomLanguages, LAMBDA lang : ~includes(customOrderLanguages, lang))
         \o SelectSeq(languages, LAMBDA lang :
                /\ ~includes(customOrderLanguages, lang)
                /\ ~includes(otherCustomLanguages, lang)
                /\ ~includes(excludedLanguages, lang))
    ELSE otherCustomLanguages
         \o SelectSeq(languages, LAMBDA lang :
                /\ ~includes(otherCustomLanguages, lang)
                /\ ~includes(excludedLanguages, lang))

\* the filter comparing the item as it is written
matchFilter_caseSensitive(list, lowerCaseValue) ==
    SelectSeq(list, LAMBDA item : strIncludes(item, lowerCaseValue))

\* the filter of the match (line 253)
matchFilter(list, lowerCaseValue) ==
    SelectSeq(list, LAMBDA item : strIncludes(toLowerCase(item), lowerCaseValue))

\* the branch taken with a query (lines 240-269)
matchLanguages(sortMode, customOrderLanguages, otherCustomLanguages, excludedLanguages, languages, value) ==
    sortMatches(matchFilter(matchPool(sortMode, customOrderLanguages, otherCustomLanguages,
                                      excludedLanguages, languages),
                            toLowerCase(value)),
                toLowerCase(value))

\* the custom branch with the otherCustomLanguages tokens not filtered by customOrder
customSorted_otherCustomWhole(customOrderLanguages, otherCustomLanguages, excludedLanguages, languages) ==
    customOrderLanguages
    \o sortDefault(
           otherCustomLanguages
           \o SelectSeq(languages, LAMBDA lang :
                  /\ ~includes(customOrderLanguages, lang)
                  /\ ~includes(otherCustomLanguages, lang)
                  /\ ~includes(excludedLanguages, lang)))

\* the custom branch keeping only the customOrder tokens the host offers
customSorted_onlyOffered(customOrderLanguages, otherCustomLanguages, excludedLanguages, languages) ==
    SelectSeq(customOrderLanguages, LAMBDA lang : includes(languages, lang))
    \o sortDefault(
           SelectSeq(otherCustomLanguages, LAMBDA lang : ~includes(customOrderLanguages, lang))
           \o SelectSeq(languages, LAMBDA lang :
                  /\ ~includes(customOrderLanguages, lang)
                  /\ ~includes(otherCustomLanguages, lang)
                  /\ ~includes(excludedLanguages, lang)))

\* the custom branch without the sort of the rest
customSorted_unsorted(customOrderLanguages, otherCustomLanguages, excludedLanguages, languages) ==
    customOrderLanguages
    \o SelectSeq(otherCustomLanguages, LAMBDA lang : ~includes(customOrderLanguages, lang))
    \o SelectSeq(languages, LAMBDA lang :
           /\ ~includes(customOrderLanguages, lang)
           /\ ~includes(otherCustomLanguages, lang)
           /\ ~includes(excludedLanguages, lang))

\* the custom branch (lines 277-285)
customSorted(customOrderLanguages, otherCustomLanguages, excludedLanguages, languages) ==
    customOrderLanguages
    \o sortDefault(
           SelectSeq(otherCustomLanguages, LAMBDA lang : ~includes(customOrderLanguages, lang))
           \o SelectSeq(languages, LAMBDA lang :
                  /\ ~includes(customOrderLanguages, lang)
                  /\ ~includes(otherCustomLanguages, lang)
                  /\ ~includes(excludedLanguages, lang)))

\* the slice filled up to frequencyTopCount entries with empty strings
topFrequencyLanguages_padded(frequencyOrder, frequencyTopCount) ==
    [k \in 1..frequencyTopCount |->
        IF k <= Len(frequencyOrder) THEN frequencyOrder[k] ELSE <<>>]

\* frequencyOrder.slice(0, frequencyTopCount) (line 288)
topFrequencyLanguages(frequencyOrder, frequencyTopCount) ==
    SubSeq(frequencyOrder, 1,
           IF Len(frequencyOrder) < frequencyTopCount THEN Len(frequencyOrder)
           ELSE frequencyTopCount)

\* the frequency branch without the otherCustomLanguages tokens
frequencySorted_dropsOtherCustom(top, otherCustomLanguages, excludedLanguages, languages) ==
    top
    \o sortDefault(
           SelectSeq(languages, LAMBDA lang :
               /\ ~includes(top, lang)
               /\ ~includes(otherCustomLanguages, lang)
               /\ ~includes(excludedLanguages, lang)))

\* the frequency branch without the exclusion of candidates
frequencySorted_noExclusion(top, otherCustomLanguages, excludedLanguages, languages) ==
    top
    \o sortDefault(
           SelectSeq(otherCustomLanguages, LAMBDA lang : ~includes(top, lang))
           \o SelectSeq(languages, LAMBDA lang :
                  /\ ~includes(top, lang)
                  /\ ~includes(otherCustomLanguages, lang)))

\* the frequency branch with the candidates filtered by otherCustomLanguages only
frequencySorted_pinnedTwice(top, otherCustomLanguages, excludedLanguages, languages) ==
    top
    \o sortDefault(
           SelectSeq(otherCustomLanguages, LAMBDA lang : ~includes(top, lang))
           \o SelectSeq(languages, LAMBDA lang :
                  /\ ~includes(otherCustomLanguages, lang)
                  /\ ~includes(excludedLanguages, lang)))

\* the frequency branch (lines 286-299)
frequencySorted(top, otherCustomLanguages, excludedLanguages, languages) ==
    top
    \o sortDefault(
           SelectSeq(otherCustomLanguages, LAMBDA lang : ~includes(top, lang))
           \o SelectSeq(languages, LAMBDA lang :
                  /\ ~includes(top, lang)
                  /\ ~includes(otherCustomLanguages, lang)
                  /\ ~includes(excludedLanguages, lang)))

\* the list written back with the matches of the frequency top moved to the front
sortedLanguages_pinnedMatches(languages, value) ==
    LET top == topFrequencyLanguages(statistics.frequencyOrder, config.frequencyTopCount)
        matches == matchLanguages(config.sortMode, cachedCustomOrderLanguages,
                                  cachedOtherCustomLanguages, cachedExcludedLanguages,
                                  languages, value)
    IN  IF value # <<>>
        THEN IF config.sortMode = "custom" THEN matches
             ELSE SelectSeq(matches, LAMBDA lang : includes(top, lang))
                  \o SelectSeq(matches, LAMBDA lang : ~includes(top, lang))
        ELSE IF config.sortMode = "custom"
        THEN customSorted(cachedCustomOrderLanguages, cachedOtherCustomLanguages,
                          cachedExcludedLanguages, languages)
        ELSE frequencySorted(top, cachedOtherCustomLanguages, cachedExcludedLanguages,
                             languages)

\* the list languageUpdate writes back to event.detail.languages
sortedLanguages(languages, value) ==
    IF value # <<>>
    THEN matchLanguages(config.sortMode, cachedCustomOrderLanguages,
                        cachedOtherCustomLanguages, cachedExcludedLanguages, languages, value)
    ELSE IF config.sortMode = "custom"
    THEN customSorted(cachedCustomOrderLanguages, cachedOtherCustomLanguages,
                      cachedExcludedLanguages, languages)
    ELSE frequencySorted(topFrequencyLanguages(statistics.frequencyOrder,
                                               config.frequencyTopCount),
                         cachedOtherCustomLanguages, cachedExcludedLanguages, languages)

\* the handler sorting the cached otherCustomLanguages list itself
languageUpdate_sortsCache(languages, value) ==
    /\ event' = [handled |-> TRUE, input |-> languages, value |-> value,
                 languages |-> sortedLanguages(languages, value)]
    /\ cachedOtherCustomLanguages' = sortDefault(cachedOtherCustomLanguages)
    /\ UNCHANGED <<config, tempConfig, cachedCustomOrderLanguages,
                   cachedExcludedLanguages, statistics, saved, now, selectionLog>>

\* languageUpdate (lines 230-305)
languageUpdate(languages, value) ==
    /\ event' = [handled |-> TRUE, input |-> languages, value |-> value,
                 languages |-> sortedLanguages(languages, value)]
    /\ UNCHANGED <<config, tempConfig, cachedCustomOrderLanguages,
                   cachedOtherCustomLanguages, cachedExcludedLanguages,
                   statistics, saved, now, selectionLog>>

----------------------------------------------------------------------------
(* The settings dialog: writes to the draft, confirm and destroy *)

\* a write with the draft and the configuration being one object
draftWrite_aliased(newTempConfig) ==
    /\ tempConfig' = newTempConfig
    /\ config' = newTempConfig
    /\ event' = NoEvent
    /\ UNCHANGED <<cachedCustomOrderLanguages, cachedOtherCustomLanguages,
                   cachedExcludedLanguages, statistics, saved, now, selectionLog>>

draftWrite(newTempConfig) ==
    /\ tempConfig' = newTempConfig
    /\ event' = NoEvent
    /\ UNCHANGED <<config, cachedCustomOrderLanguages, cachedOtherCustomLanguages,
                   cachedExcludedLanguages, statistics, saved, now, selectionLog>>

\* the change listener of the sort mode select (lines 380-383)
setSortMode(value) == draftWrite([tempConfig EXCEPT !.sortMode = value])

\* the input listeners of the three text areas (lines 419-421, 496-498, 534-536)
setCustomOrder(value) == draftWrite([tempConfig EXCEPT !.customOrder = value])

setOtherCustomLanguages(value) ==
    draftWrite([tempConfig EXCEPT !.otherCustomLanguages = value])

setExcludedLanguages(value) == draftWrite([tempConfig EXCEPT !.excludedLanguages = value])

\* parseInt of the text of a number input: white space is skipped, then an
\* optional sign and the decimal digits that follow are read; with no digit
\* the result is NaN.  The result is [nan, n], n being read only when ~nan.
parseInt(text) ==
    LET s == trim(text)
        signed == s # <<>> /\ s[1] \in {43, 45}
        body == IF signed THEN Tail(s) ELSE s
        stops == {i \in 1..Len(body) : body[i] \notin 48..57}
        count == IF stops = {} THEN Len(body)
                 ELSE (CHOOSE i \in stops : \A j \in stops : i <= j) - 1
        RECURSIVE digits(_)
        digits(k) == IF k = 0 THEN 0 ELSE 10 * digits(k - 1) + (body[k] - 48)
    IN  IF count = 0 THEN [nan |-> TRUE, n |-> 0]
        ELSE [nan |-> FALSE,
              n |-> IF signed /\ s[1] = 45 THEN 0 - digits(count) ELSE digits(count)]

\* value >= low && value <= high: a comparison with NaN is false
inRange(value, low, high) == ~value.nan /\ value.n >= low /\ value.n <= high

MinTopCount == 1
MaxTopCount == 15
MinDaysRange == 1
MaxDaysRange == 90

\* the input listener of frequencyTopCount (lines 445-450)
setFrequencyTopCount(text) ==
    draftWrite(IF inRange(parseInt(text), MinTopCount, MaxTopCount)
               THEN [tempConfig EXCEPT !.frequencyTopCount = parseInt(text).n]
               ELSE tempConfig)

\* the input listener of frequencyDaysRange (lines 470-475)
setFrequencyDaysRange(text) ==
    draftWrite(IF inRange(parseInt(text), MinDaysRange, MaxDaysRange)
               THEN [tempConfig EXCEPT !.frequencyDaysRange = parseInt(text).n]
               ELSE tempConfig)

\* the confirmation copying the draft without its two numbers
confirmCallback_keepsNumbers ==
    /\ config' = [tempConfig EXCEPT !.frequencyTopCount = config.frequencyTopCount,
                                    !.frequencyDaysRange = config.frequencyDaysRange]
    /\ saved' = [saved EXCEPT !.config = config']
    /\ cachedCustomOrderLanguages' = parseLanguagesInput(tempConfig.customOrder)
    /\ cachedOtherCustomLanguages' = parseLanguagesInput(tempConfig.otherCustomLanguages)
    /\ cachedExcludedLanguages' = parseLanguagesInput(tempConfig.excludedLanguages)
    /\ event' = NoEvent
    /\ UNCHANGED <<tempConfig, statistics, now, selectionLog>>

\* the confirmation without parseAndCacheLanguages
confirmCallback_staleCaches ==
    /\ config' = tempConfig
    /\ saved' = [saved EXCEPT !.config = tempConfig]
    /\ event' = NoEvent
    /\ UNCHANGED <<tempConfig, cachedCustomOrderLanguages, cachedOtherCustomLanguages,
                   cachedExcludedLanguages, statistics, now, selectionLog>>

\* confirmCallback (lines 69-76)
confirmCallback ==
    /\ config' = tempConfig
    /\ saved' = [saved EXCEPT !.config = tempConfig]
    /\ cachedCustomOrderLanguages' = parseLanguagesInput(tempConfig.customOrder)
    /\ cachedOtherCustomLanguages' = parseLanguagesInput(tempConfig.otherCustomLanguages)
    /\ cachedExcludedLanguages' = parseLanguagesInput(tempConfig.excludedLanguages)
    /\ event' = NoEvent
    /\ UNCHANGED <<tempConfig, statistics, now, selectionLog>>

\* destroyCallback (lines 77-80)
destroyCallback ==
    /\ tempConfig' = config
    /\ event' = NoEvent
    /\ UNCHANGED <<config, cachedCustomOrderLanguages, cachedOtherCustomLanguages,
                   cachedExcludedLanguages, statistics, saved, now, selectionLog>>

----------------------------------------------------------------------------
(* The statistics over time: a first run, selections on passing days, the  *)
(* window changed in the settings, and ordering requests in between.       *)

\* the languages the host reports as selected
SelectedLanguages == {Str_py, Str_js, Str_blank, <<>>, Str_constructor}

\* texts typed into the frequencyDaysRange input: "1", "2", "0", "91", ""
DaysRangeTexts == {<<49>>, <<50>>, <<48>>, <<57, 49>>, <<>>}

\* the candidate lists of the host
StatisticsCandidates == {<<Str_js, Str_py>>}

InitStatistics == onload(EmptyConfigDoc) /\ selectionLog = LogOff

NextStatistics ==
    \/ \E language \in SelectedLanguages : languageChange(language, MaxStored)
    \/ Tick
    \/ \E text \in DaysRangeTexts : setFrequencyDaysRange(text)
    \/ confirmCallback
    \/ destroyCallback
    \/ \E languages \in StatisticsCandidates : languageUpdate(languages, <<>>)

SpecStatistics == InitStatistics /\ [][NextStatistics]_vars

----------------------------------------------------------------------------
(* The ordering: a configuration stored by an earlier session, selections  *)
(* that build the frequency order, the sort mode and the top count changed *)
(* in the settings, and ordering requests with and without a query.        *)

\* the raw lists of the stored configurations: "js, Py", "py,Py,ap", "js,cp"
RawCustomOrders == {<<>>, CommaJoin(Str_js, <<32>> \o Str_Py)}
RawOtherCustomLanguages == {<<>>, CommaJoin(Str_py, CommaJoin(Str_Py, Str_ap))}
RawExcludedLanguages == {<<>>, CommaJoin(Str_js, Str_cp)}

OrderingDocs ==
    {[sortMode |-> m, customOrder |-> c, frequencyTopCount |-> 0, frequencyDaysRange |-> 0,
      otherCustomLanguages |-> o, excludedLanguages |-> e] :
        m \in {"", "custom"}, c \in RawCustomOrders,
        o \in RawOtherCustomLanguages, e \in RawExcludedLanguages}

\* texts typed into the frequencyTopCount input: "1", "0"
TopCountTexts == {<<49>>, <<48>>}

OrderingSelections == {Str_py, Str_js, Str_cp}

\* the candidate lists of the host: none, a sorted one, an unsorted one
OrderingCandidates ==
    {<<>>,
     <<Str_ap, Str_cp, Str_js, Str_py, Str_pyc>>,
     <<Str_pyc, Str_cp, Str_py, Str_ap, Str_Py>>}

\* the queries: none, "P", "PY", "J"
Queries == {<<>>, Str_P, Str_PY, Str_J}

InitOrdering == (\E doc \in OrderingDocs : onload(doc)) /\ selectionLog = LogOff

NextOrdering ==
    \/ \E language \in OrderingSelections : languageChange(language, MaxOrderingStored)
    \/ \E value \in {"custom", "frequency"} : setSortMode(value)
    \/ \E text \in TopCountTexts : setFrequencyTopCount(text)
    \/ confirmCallback
    \/ destroyCallback
    \/ \E languages \in OrderingCandidates, value \in Queries : languageUpdate(languages, value)

SpecOrdering == InitOrdering /\ [][NextOrdering]_vars

----------------------------------------------------------------------------
(* The settings dialog: a first run, every field of the draft written,     *)
(* confirmed or given up, with a language selected in between.             *)

SortModes == {"custom", "frequency"}

\* texts typed into the three text areas
SettingsCustomOrders == {<<>>, Str_js}
SettingsOtherCustomLanguages == {<<>>, Str_py}
SettingsExcludedLanguages == {<<>>, Str_cp}

\* texts typed into the frequencyTopCount input: "16", "0", "", "x", "-5" and
\* "1e2", the number 100 in the exponent notation a number input takes
SettingsTopCountTexts ==
    {<<49, 54>>, <<48>>, <<>>, <<120>>, <<45, 53>>, <<49, 101, 50>>}

\* texts typed into the frequencyDaysRange input: "90", "91", "0", "", "x", "-5"
SettingsDaysRangeTexts ==
    {<<57, 48>>, <<57, 49>>, <<48>>, <<>>, <<120>>, <<45, 53>>}

\* the candidate list of the host and the queries: none and "J"
SettingsCandidates == {<<Str_js, Str_cp, Str_py>>}
SettingsQueries == {<<>>, Str_J}

InitSettings == onload(EmptyConfigDoc) /\ selectionLog = LogOff

NextSettings ==
    \/ \E value \in SortModes : setSortMode(value)
    \/ \E value \in SettingsCustomOrders : setCustomOrder(value)
    \/ \E value \in SettingsOtherCustomLanguages : setOtherCustomLanguages(value)
    \/ \E value \in SettingsExcludedLanguages : setExcludedLanguages(value)
    \/ \E text \in SettingsTopCountTexts : setFrequencyTopCount(text)
    \/ \E text \in SettingsDaysRangeTexts : setFrequencyDaysRange(text)
    \/ confirmCallback
    \/ destroyCallback
    \/ languageChange(Str_js, MaxOrderingStored)
    \/ \E languages \in SettingsCandidates, value \in SettingsQueries :
           languageUpdate(languages, value)

SpecSettings == InitSettings /\ [][NextSettings]_vars

----------------------------------------------------------------------------
(* The window of the statistics: a frequencyDaysRange stored by an earlier *)
(* session, and selections notified over passing days, all of them logged. *)

\* the stored windows: 1 day and 2 days
WindowDocs == {[EmptyConfigDoc EXCEPT !.frequencyDaysRange = w] : w \in {1, 2}}

\* the languages the host reports as selected: two names, a blank one, the
\* empty one and the name of a member of Object.prototype
WindowSelections == {Str_py, Str_js, Str_blank, <<>>, Str_constructor}

InitWindow == (\E doc \in WindowDocs : onload(doc)) /\ selectionLog = LogOn

NextWindow ==
    \/ \E language \in WindowSelections :
           /\ trim(language) # <<>> => loggedUses(selectionLog) < MaxLogged
           /\ languageChange(language, MaxStored)
    \/ Tick

SpecWindow == InitWindow /\ [][NextWindow]_vars

----------------------------------------------------------------------------
(* The parsing of a list string: a customOrder stored by an earlier        *)
(* session, in every spelling up to a length, or typed and confirmed.      *)

\* Array.prototype.join
RECURSIVE join(_, _)
join(list, separator) ==
    IF list = <<>> THEN <<>>
    ELSE IF Len(list) = 1 THEN list[1]
    ELSE list[1] \o separator \o join(Tail(list), separator)

\* the code units of the stored strings: a & < , space backtick tab
RawUnits == {97, 38, 60, 44, 32, 96, 9}

RawStrings == UNION {[1..n -> RawUnits] : n \in 0..MaxRawLen}

\* typed lists: " a b ,,c`d,<tab>e ", "a&b,<c" and "a,&,,a, a"
Str_rawList == <<32, 97, 32, 98, 32, 44, 44, 99, 96, 100, 44, 9, 101, 32>>
Str_rawMarkup == <<97, 38, 98, 44, 60, 99>>
Str_rawRepeats == <<97, 44, 38, 44, 44, 97, 44, 32, 97>>
ParseTexts == {Str_rawList, Str_rawMarkup, Str_rawRepeats}

InitParse ==
    /\ \E raw \in RawStrings : onload([EmptyConfigDoc EXCEPT !.customOrder = raw])
    /\ selectionLog = LogOff

NextParse ==
    \/ \E value \in ParseTexts : setCustomOrder(value)
    \/ confirmCallback
    \/ destroyCallback

SpecParse == InitParse /\ [][NextParse]_vars

----------------------------------------------------------------------------
(* The limit on the segments: a customOrder stored by an earlier session   *)
(* with about as many segments as the limit, or typed and confirmed.       *)

\* a list of n segments of one code unit each: "a" up to the limit and "b"
\* after it, a space in the segment `blank`, and a comma in front when `led`
LongList(n, blank, led) ==
    (IF led THEN <<44>> ELSE <<>>)
    \o [i \in 1..(2 * n - 1) |->
           IF i % 2 = 0 THEN 44
           ELSE IF (i + 1) \div 2 = blank THEN 32
           ELSE IF (i + 1) \div 2 > MaxParts THEN 98
           ELSE 97]

\* the stored lists: one segment fewer than the limit up to MaxExtraParts more,
\* with no blank segment, a blank first, middle or last one of the limit
LongLists ==
    {LongList(n, blank, led) :
        n \in (MaxParts - 1)..(MaxParts + MaxExtraParts),
        blank \in {0, 1, MaxParts \div 2, MaxParts},
        led \in BOOLEAN}

\* typed lists: none, and one over the limit with a blank segment
LimitTexts == {<<>>, LongList(MaxParts + MaxExtraParts, 2, FALSE)}

InitLimit ==
    /\ \E raw \in LongLists : onload([EmptyConfigDoc EXCEPT !.customOrder = raw])
    /\ selectionLog = LogOff

NextLimit ==
    \/ \E value \in LimitTexts : setCustomOrder(value)
    \/ confirmCallback
    \/ destroyCallback

SpecLimit == InitLimit /\ [][NextLimit]_vars

----------------------------------------------------------------------------
(* Properties of the statistics (checked under SpecStatistics)             *)

\* the current day and the first day that is not expired
Today == dateString(now)
FirstLiveDay == Today - config.frequencyDaysRange

\* the uses of one language on its stored days from day `first` on
LiveUses(stats, first) == sumDates(stats.dates, {d \in DOMAIN stats.dates : d >= first})

TrackedIndexes == 1..Len(statistics.languages)

\* every totalCount is the sum of the day entries that are not expired
TotalsCountLiveDaysOnly ==
    \A i \in TrackedIndexes :
        statistics.languages[i].totalCount = LiveUses(statistics.languages[i], FirstLiveDay)

\* every totalCount is the sum of the day entries that are stored
TotalsCountStoredDays ==
    \A i \in TrackedIndexes :
        statistics.languages[i].totalCount
            = sumDates(statistics.languages[i].dates, DOMAIN statistics.languages[i].dates)

\* a selection notification is handled to its end in this step
SelectionStep ==
    /\ now' = now
    /\ ~event'.handled
    /\ tempConfig' = tempConfig
    /\ \E language \in SelectedLanguages :
           /\ ~(trim(language) # <<>> /\ readsInherited(statistics.languages, language))
           /\ languageChange(language, MaxStored)

(* C1 as stated: in every reachable state, for every tracked language,     *)
(* totalCount equals the sum of its day entries that are not expired with  *)
(* respect to the current day and the committed frequencyDaysRange.        *)
C1_TotalIsLiveSumAlways == TotalsCountLiveDaysOnly

(* C1 as amended: in every reachable state totalCount equals the sum of    *)
(* the day entries that are stored, and in the state that a selection      *)
(* notification handled to its end leaves (its pruning pass has run) it is *)
(* the sum of the entries that are not expired; a day that passes or a     *)
(* shorter window that is committed leaves expired entries counted until   *)
(* then.                                                                   *)
C1_TotalIsLiveSumAfterPruning ==
    /\ []TotalsCountStoredDays
    /\ [][TotalsCountLiveDaysOnly' \/ ~SelectionStep]_vars

\* the pruning pass dropped a day of a language that stays tracked, after the
\* save of the last recorded selection
C1_Witness ==
    /\ saved.statistics # <<>>
    /\ TotalsCountLiveDaysOnly
    /\ \E i \in TrackedIndexes, j \in 1..Len(saved.statistics.languages) :
           /\ saved.statistics.languages[j].language = statistics.languages[i].language
           /\ statistics.languages[i].totalCount >= 1
           /\ DOMAIN statistics.languages[i].dates
                  # DOMAIN saved.statistics.languages[j].dates
           /\ DOMAIN statistics.languages[i].dates
                  \subseteq DOMAIN saved.statistics.languages[j].dates

\* the totalCount of a tracked language
TotalOf(language) == languageStats(statistics.languages, language).totalCount

(* C2: frequencyOrder is a permutation of exactly the keys of languages    *)
(* (none missing, none extra, none repeated) and is sorted by              *)
(* non-increasing totalCount, after every operation on the languages map.  *)
C2_FrequencyOrderIsSortedPermutation ==
    LET order == statistics.frequencyOrder
        keys == languageKeys(statistics.languages)
    IN  /\ Len(order) = Len(keys)
        /\ \A i \in 1..Len(keys) : Cardinality({j \in 1..Len(order) : order[j] = keys[i]}) = 1
        /\ \A j \in 1..Len(order) : hasLanguage(statistics.languages, order[j])
        /\ \A j, k \in 1..Len(order) : j < k => TotalOf(order[j]) >= TotalOf(order[k])

\* the sort moved a language: the later key has the higher count
C2_Witness ==
    /\ Len(statistics.languages) >= 2
    /\ statistics.frequencyOrder # languageKeys(statistics.languages)
    /\ statistics.languages[1].totalCount < statistics.languages[2].totalCount

\* an ordering request without a query was handled in frequency mode
FrequencyRequestHandled ==
    event.handled /\ event.value = <<>> /\ config.sortMode = "frequency"

\* the number of pinned languages at the head of the output
PinnedCount ==
    IF Len(statistics.frequencyOrder) < config.frequencyTopCount
    THEN Len(statistics.frequencyOrder) ELSE config.frequencyTopCount

(* C8: for every ordering request served in frequency mode without a       *)
(* query, every language of the pinned prefix has a recorded selection on  *)
(* a day that is not expired at the time of the request.                   *)
C8_PinnedLanguagesAreLive ==
    FrequencyRequestHandled =>
        \A k \in 1..PinnedCount :
            /\ hasLanguage(statistics.languages, event.languages[k])
            /\ LiveUses(languageStats(statistics.languages, event.languages[k]),
                        FirstLiveDay) >= 1

----------------------------------------------------------------------------
(* Properties of the ordering (checked under SpecOrdering)                 *)

\* the canonicalized lists of the committed configuration
CustomOrderTokens == parseLanguagesInput(config.customOrder)
OtherCustomTokens == parseLanguagesInput(config.otherCustomLanguages)
ExcludedTokens == parseLanguagesInput(config.excludedLanguages)

\* the elements of a list
Elements(list) == {list[i] : i \in 1..Len(list)}

\* the number of times x occurs in a list
Occurrences(list, x) == Cardinality({i \in 1..Len(list) : list[i] = x})

\* two lists hold the same tokens the same number of times
SameTokens(a, b) ==
    /\ Len(a) = Len(b)
    /\ \A x \in Elements(a) \cup Elements(b) : Occurrences(a, x) = Occurrences(b, x)

\* a list is in ascending code unit order
Ascending(list) == \A i, j \in 1..Len(list) : i < j => ~strLess(list[j], list[i])

\* the part of a list after its first n entries
After(list, n) == SubSeq(list, n + 1, Len(list))

BaseRequestHandled == event.handled /\ event.value = <<>>
CustomRequestHandled == BaseRequestHandled /\ config.sortMode = "custom"

\* the tokens the committed mode puts into the output whatever the host offers
ConfiguredTokens ==
    Elements(OtherCustomTokens)
    \cup (IF config.sortMode = "custom" THEN Elements(CustomOrderTokens)
          ELSE Elements(SubSeq(statistics.frequencyOrder, 1, PinnedCount)))

(* C3 as stated: the output of an ordering request without a query holds   *)
(* no token of the canonicalized excludedLanguages list, in both modes,    *)
(* also when the token occurs in customOrder, otherCustomLanguages or the  *)
(* frequency top.                                                          *)
C3_NoExcludedTokenInBaseOutput ==
    BaseRequestHandled =>
        \A i \in 1..Len(event.languages) : event.languages[i] \notin Elements(ExcludedTokens)

(* C3 as amended: the output of an ordering request without a query holds  *)
(* no token of the canonicalized excludedLanguages list except the tokens  *)
(* the configuration itself puts there: those of otherCustomLanguages, and *)
(* those of customOrder in custom mode or of the frequency top in          *)
(* frequency mode.  An excluded candidate that is none of these is absent. *)
C3_ExcludedCandidatesAreDropped ==
    BaseRequestHandled =>
        \A i \in 1..Len(event.languages) :
            event.languages[i] \in Elements(ExcludedTokens) =>
                event.languages[i] \in ConfiguredTokens

\* the host offered two excluded candidates: one is dropped, the other is in
\* the output because it is pinned
C3_Witness ==
    /\ BaseRequestHandled
    /\ \E token \in Elements(event.input) :
           token \in Elements(ExcludedTokens) /\ token \notin Elements(event.languages)
    /\ \E token \in Elements(event.input) :
           token \in Elements(ExcludedTokens) /\ token \in Elements(event.languages)

(* C4: in custom mode without a query the output begins with the           *)
(* canonicalized customOrder list verbatim (same tokens, order, length),   *)
(* whatever the candidates are.                                            *)
C4_CustomOrderIsPrefix ==
    CustomRequestHandled =>
        /\ Len(event.languages) >= Len(CustomOrderTokens)
        /\ SubSeq(event.languages, 1, Len(CustomOrderTokens)) = CustomOrderTokens

\* a custom request whose customOrder names a token the host did not offer
C4_Witness ==
    /\ CustomRequestHandled
    /\ CustomOrderTokens # <<>>
    /\ event.input # <<>>
    /\ \E token \in Elements(CustomOrderTokens) : token \notin Elements(event.input)
    /\ \E token \in Elements(CustomOrderTokens) : token \in Elements(ExcludedTokens)

\* the general pool behind a pinned list: the otherCustomLanguages tokens not
\* pinned, and the candidates not pinned, not in otherCustomLanguages, not excluded
GeneralPool(pinned) ==
    SelectSeq(OtherCustomTokens, LAMBDA token : token \notin Elements(pinned))
    \o SelectSeq(event.input, LAMBDA token :
           /\ token \notin Elements(pinned)
           /\ token \notin Elements(OtherCustomTokens)
           /\ token \notin Elements(ExcludedTokens))

\* the first frequencyTopCount entries of frequencyOrder
TopOfFrequencyOrder == SubSeq(statistics.frequencyOrder, 1, PinnedCount)

(* C5: in frequency mode without a query the output is exactly the first   *)
(* frequencyTopCount entries of frequencyOrder, followed by the ascending  *)
(* list of the otherCustomLanguages tokens that are not pinned and the     *)
(* candidates that are not pinned, not in otherCustomLanguages and not     *)
(* excluded.                                                               *)
C5_FrequencyOutput ==
    FrequencyRequestHandled =>
        /\ Len(event.languages) >= PinnedCount
        /\ SubSeq(event.languages, 1, PinnedCount) = TopOfFrequencyOrder
        /\ SameTokens(After(event.languages, PinnedCount), GeneralPool(TopOfFrequencyOrder))
        /\ Ascending(After(event.languages, PinnedCount))

\* a frequency request: more languages tracked than pinned, the pinned one
\* not offered by the host, and a rest that holds configured tokens and candidates
C5_Witness ==
    /\ FrequencyRequestHandled
    /\ \E token \in Elements(TopOfFrequencyOrder) : token \notin Elements(event.input)
    /\ \E token \in Elements(After(event.languages, PinnedCount)) :
           hasLanguage(statistics.languages, token)
    /\ \E token \in Elements(After(event.languages, PinnedCount)) :
           token \in Elements(OtherCustomTokens)
    /\ \E token \in Elements(After(event.languages, PinnedCount)) :
           token \notin Elements(OtherCustomTokens)
    /\ PinnedCount < Len(statistics.frequencyOrder)

(* C6: in custom mode without a query the output after the customOrder     *)
(* prefix holds exactly the otherCustomLanguages tokens not in customOrder *)
(* and the candidates not in customOrder, not in otherCustomLanguages and  *)
(* not excluded, in ascending code unit order.                             *)
C6_CustomRestIsSortedPool ==
    CustomRequestHandled =>
        /\ Len(event.languages) >= Len(CustomOrderTokens)
        /\ SameTokens(After(event.languages, Len(CustomOrderTokens)),
                      GeneralPool(CustomOrderTokens))
        /\ Ascending(After(event.languages, Len(CustomOrderTokens)))

\* a custom request whose pool is not in ascending order as configured and offered
C6_Witness ==
    /\ CustomRequestHandled
    /\ CustomOrderTokens # <<>>
    /\ ~Ascending(GeneralPool(CustomOrderTokens))
    /\ \E token \in Elements(OtherCustomTokens) : token \in Elements(CustomOrderTokens)
    /\ \E token \in Elements(event.input) : token \in Elements(ExcludedTokens)
    /\ Len(After(event.languages, Len(CustomOrderTokens))) >= 3

\* the smaller of frequencyTopCount and the number of tracked languages
TrackedOrTopCount ==
    IF Len(statistics.languages) < config.frequencyTopCount
    THEN Len(statistics.languages) ELSE config.frequencyTopCount

(* C7: in frequency mode without a query the number of pinned languages at *)
(* the head of the output is min(frequencyTopCount, number of tracked      *)
(* languages); no blank entry is emitted for a missing one and the tokens  *)
(* after them come from the sorted general pool.                           *)
C7_PinnedCountIsClamped ==
    FrequencyRequestHandled =>
        /\ Len(event.languages) = TrackedOrTopCount + Len(GeneralPool(TopOfFrequencyOrder))
        /\ \A k \in 1..TrackedOrTopCount :
               /\ hasLanguage(statistics.languages, event.languages[k])
               /\ event.languages[k] = statistics.frequencyOrder[k]
               /\ trim(event.languages[k]) # <<>>
        /\ \A k \in (TrackedOrTopCount + 1)..Len(event.languages) :
               event.languages[k] \in Elements(OtherCustomTokens) \cup Elements(event.input)

\* fewer languages are tracked than frequencyTopCount asks for
C7_Witness ==
    /\ FrequencyRequestHandled
    /\ Len(statistics.languages) = 2
    /\ config.frequencyTopCount = DefaultTopCount
    /\ Len(event.languages) > 2

QueryRequestHandled == event.handled /\ event.value # <<>>

\* the lower-case form of a code unit
LowerUnit(c) == IF c >= 65 /\ c <= 90 THEN c + 32 ELSE c

\* token holds query at offset, letter case aside
MatchesAt(token, query, offset) ==
    /\ offset + Len(query) <= Len(token)
    /\ \A k \in 1..Len(query) : LowerUnit(token[offset + k]) = LowerUnit(query[k])

Matches(token, query) == \E offset \in 0..Len(token) : MatchesAt(token, query, offset)

\* the pool of the committed mode
ModePool ==
    matchPool(config.sortMode, CustomOrderTokens, OtherCustomTokens, ExcludedTokens,
              event.input)

MatchingPool == SelectSeq(ModePool, LAMBDA token : Matches(token, event.value))

(* C9: with a query the output holds exactly the tokens of the mode's pool *)
(* whose lower-case form contains the lower-case query: every output token *)
(* matches and every matching pool token is in the output.                 *)
C9_OutputIsMatchingPool ==
    QueryRequestHandled =>
        /\ \A i \in 1..Len(event.languages) : Matches(event.languages[i], event.value)
        /\ SameTokens(event.languages, MatchingPool)

\* a query in capitals over a pool with tokens that match in lower case,
\* a token that matches inside and a token that does not match
C9_Witness ==
    /\ QueryRequestHandled
    /\ event.value = Str_P
    /\ Str_py \in Elements(event.languages)
    /\ Str_cp \in Elements(event.languages)
    /\ Str_js \in Elements(ModePool)
    /\ Str_js \notin Elements(event.languages)

\* the rank class of a matching token: 0 with no match at the start, else its length
MatchClass(token) == IF MatchesAt(token, event.value, 0) THEN Len(token) ELSE 0

\* the tokens of a list that are in one class
OfClass(list, class) == SelectSeq(list, LAMBDA token : MatchClass(token) = class)

(* C10: with a query, every token that starts with the query precedes      *)
(* every token that only contains it, a shorter starting token precedes a  *)
(* longer one, and tokens these rules do not order keep their order in the *)
(* pool.                                                                   *)
C10_MatchRanking ==
    QueryRequestHandled =>
        /\ \A i, j \in 1..Len(event.languages) :
               i < j =>
                   /\ MatchClass(event.languages[i]) = 0 => MatchClass(event.languages[j]) = 0
                   /\ MatchClass(event.languages[j]) # 0 =>
                          MatchClass(event.languages[i]) <= MatchClass(event.languages[j])
        /\ \A class \in {MatchClass(token) : token \in Elements(MatchingPool)} :
               OfClass(event.languages, class) = OfClass(MatchingPool, class)

\* starting tokens of two lengths, two of one length that stand in the pool
\* against the code unit order, and two containing tokens likewise
C10_Witness ==
    /\ QueryRequestHandled
    /\ event.languages # MatchingPool
    /\ OfClass(event.languages, 2) = <<Str_py, Str_Py>>
    /\ OfClass(event.languages, 3) = <<Str_pyc>>
    /\ OfClass(event.languages, 0) = <<Str_cp, Str_ap>>

\* the tokens the committed mode puts into the searched list whatever the host offers
ConfiguredPoolTokens ==
    Elements(OtherCustomTokens)
    \cup (IF config.sortMode = "custom" THEN Elements(CustomOrderTokens) ELSE {})

(* C11 as stated: with a non-empty query the output of an ordering request *)
(* holds no token of the canonicalized excludedLanguages list, in both     *)
(* modes, also when the token occurs in customOrder or in                  *)
(* otherCustomLanguages.                                                   *)
C11_NoExcludedTokenInQueryOutput ==
    QueryRequestHandled =>
        \A i \in 1..Len(event.languages) : event.languages[i] \notin Elements(ExcludedTokens)

(* C11 as amended: with a non-empty query the output holds no token of the *)
(* canonicalized excludedLanguages list except the tokens of               *)
(* otherCustomLanguages and, in custom mode, of customOrder.  An excluded  *)
(* candidate that is in neither list is absent, also when it is at the top *)
(* of frequencyOrder.                                                      *)
C11_ExcludedCandidatesAreNotMatched ==
    QueryRequestHandled =>
        \A i \in 1..Len(event.languages) :
            event.languages[i] \in Elements(ExcludedTokens) =>
                event.languages[i] \in ConfiguredPoolTokens

\* a query that an excluded candidate matches: the candidate is the most used
\* language and is not in the output, which holds other matches
C11_Witness ==
    /\ QueryRequestHandled
    /\ config.sortMode = "frequency"
    /\ event.languages # <<>>
    /\ \E token \in Elements(event.input) :
           /\ token \in Elements(ExcludedTokens)
           /\ Matches(token, event.value)
           /\ statistics.frequencyOrder # <<>>
           /\ statistics.frequencyOrder[1] = token
           /\ token \notin Elements(event.languages)

\* token a matches the query better than token b
BetterMatch(a, b) ==
    \/ MatchClass(a) # 0 /\ MatchClass(b) = 0
    \/ MatchClass(a) # 0 /\ MatchClass(b) # 0 /\ Len(a) < Len(b)

\* the matching tokens of the searched list: those that start with the query
\* by ascending length, then those that hold it inside, each group in the
\* order of the list.  Nothing of the statistics or of frequencyTopCount is read.
RankedMatches ==
    LET pool == MatchingPool
        lengths == {Len(pool[i]) : i \in 1..Len(pool)}
        longest == IF lengths = {} THEN 0
                   ELSE CHOOSE n \in lengths : \A m \in lengths : m <= n
    IN  Flatten([class \in 1..longest |-> OfClass(pool, class)]) \o OfClass(pool, 0)

(* C19: with a query nothing is pinned.  The output is determined by the   *)
(* searched list (the configured lists and the candidates) and the query:  *)
(* states that differ in the statistics or in frequencyTopCount give the   *)
(* same output, and no token stands before a token that matches better.    *)
C19_QueryOutputIgnoresUsage ==
    QueryRequestHandled =>
        /\ event.languages = RankedMatches
        /\ \A i, j \in 1..Len(event.languages) :
               i < j => ~BetterMatch(event.languages[j], event.languages[i])

\* in frequency mode the most used language matches the query inside, is in
\* the output and stands behind tokens that are not tracked and start with it
C19_Witness ==
    /\ QueryRequestHandled
    /\ config.sortMode = "frequency"
    /\ statistics.frequencyOrder # <<>>
    /\ Len(event.languages) >= 3
    /\ \E j \in 2..Len(event.languages) :
           /\ event.languages[j] = statistics.frequencyOrder[1]
           /\ BetterMatch(event.languages[1], event.languages[j])
           /\ ~hasLanguage(statistics.languages, event.languages[1])

(* C30: without a query, every candidate of the host that is not in the    *)
(* canonicalized excludedLanguages list is in the output, in both modes:   *)
(* neither the pinned prefix nor the sort drops such a candidate.          *)
C30_NoCandidateIsDropped ==
    BaseRequestHandled =>
        \A k \in 1..Len(event.input) :
            event.input[k] \notin Elements(ExcludedTokens) =>
                event.input[k] \in Elements(event.languages)

\* a frequency request with a pinned candidate, a candidate that is in
\* otherCustomLanguages, a candidate in no list and an excluded one that is dropped
C30_Witness ==
    /\ FrequencyRequestHandled
    /\ \E token \in Elements(event.input) :
           token \in Elements(TopOfFrequencyOrder) /\ token \notin Elements(ExcludedTokens)
    /\ \E token \in Elements(event.input) :
           /\ token \in Elements(OtherCustomTokens)
           /\ token \notin Elements(TopOfFrequencyOrder)
    /\ \E token \in Elements(event.input) :
           /\ token \notin Elements(OtherCustomTokens) \cup Elements(TopOfFrequencyOrder)
           /\ token \in Elements(event.languages)
    /\ \E token \in Elements(event.input) :
           token \in Elements(ExcludedTokens) /\ token \notin Elements(event.languages)

\* no token stands twice in the list
NoDuplicates(list) == \A i, j \in 1..Len(list) : i < j => list[i] # list[j]

(* C31: when the canonicalized customOrder, the canonicalized              *)
(* otherCustomLanguages and the candidate list each hold no token twice,   *)
(* the output of an ordering request without a query holds no token twice, *)
(* in both modes: a token that is in several of the pinned list,           *)
(* otherCustomLanguages and the candidates is emitted once.                *)
C31_NoTokenTwice ==
    (/\ BaseRequestHandled
     /\ NoDuplicates(CustomOrderTokens)
     /\ NoDuplicates(OtherCustomTokens)
     /\ NoDuplicates(event.input))
        => NoDuplicates(event.languages)

\* a custom request with a token that is in customOrder, in otherCustomLanguages
\* and among the candidates, and another that is in the last two
C31_Witness ==
    /\ CustomRequestHandled
    /\ NoDuplicates(event.languages)
    /\ \E token \in Elements(event.input) :
           token \in Elements(CustomOrderTokens) /\ token \in Elements(OtherCustomTokens)
    /\ \E token \in Elements(event.input) :
           token \notin Elements(CustomOrderTokens) /\ token \in Elements(OtherCustomTokens)
    /\ Len(event.languages) >= 5

\* the step leaves the committed configuration, the draft and the cached lists
ConfigurationUntouched ==
    /\ config' = config
    /\ tempConfig' = tempConfig
    /\ cachedCustomOrderLanguages' = cachedCustomOrderLanguages
    /\ cachedOtherCustomLanguages' = cachedOtherCustomLanguages
    /\ cachedExcludedLanguages' = cachedExcludedLanguages

\* the step adds no language record and increases no day entry and no totalCount
NothingCounted ==
    \A j \in 1..Len(statistics'.languages) :
        LET new == statistics'.languages[j]
        IN  /\ hasLanguage(statistics.languages, new.language)
            /\ new.totalCount <= languageStats(statistics.languages, new.language).totalCount
            /\ \A date \in DOMAIN new.dates :
                   /\ date \in DOMAIN languageStats(statistics.languages, new.language).dates
                   /\ new.dates[date]
                          <= languageStats(statistics.languages, new.language).dates[date]

\* an ordering request is handled in this step
OrderingStep ==
    /\ event'.handled
    /\ \E languages \in OrderingCandidates, value \in Queries :
           languageUpdate(languages, value)

\* a selection notification is handled in this step
NotificationStep ==
    /\ ~event'.handled
    /\ now' = now
    /\ \E language \in OrderingSelections : languageChange(language, MaxOrderingStored)

(* C32: an ordering request changes neither the committed configuration,   *)
(* the draft nor the cached lists, adds no language record and increases   *)
(* no day entry and no totalCount (it leaves the statistics and the saved  *)
(* documents as they are); a selection notification changes neither the    *)
(* committed configuration, the draft nor the cached lists.                *)
C32_HandlersLeaveConfiguration ==
    [][/\ \/ /\ ConfigurationUntouched
                /\ NothingCounted
                /\ statistics' = statistics
                /\ saved' = saved
             \/ ~OrderingStep
          /\ \/ ConfigurationUntouched /\ saved'.config = saved.config
             \/ ~NotificationStep]_vars

\* an ordering request handled with a draft that differs from the committed
\* configuration, a cached list that is not in ascending order, and statistics
\* that a selection has filled
C32_Witness ==
    /\ event.handled
    /\ tempConfig # config
    /\ statistics.languages # <<>>
    /\ saved.statistics # <<>>
    /\ cachedCustomOrderLanguages # <<>>
    /\ cachedExcludedLanguages # <<>>
    /\ ~Ascending(cachedOtherCustomLanguages)
    /\ event.languages # event.input

----------------------------------------------------------------------------
(* Properties of the settings (checked under SpecSettings)                 *)

\* the ordering requests and the instants of a pruning pass that are compared:
\* now, and the days after the default and after the longest window
ComparedCandidates == {<<Str_js, Str_cp>>}
ComparedQueries == {<<>>}
ComparedInstants == {0, (DefaultDaysRange + 1) * TicksPerDay, (MaxDaysRange + 1) * TicksPerDay}

\* the step changes nothing that is committed and no result computed from it
CommittedUntouched ==
    /\ config' = config
    /\ cachedCustomOrderLanguages' = cachedCustomOrderLanguages
    /\ cachedOtherCustomLanguages' = cachedOtherCustomLanguages
    /\ cachedExcludedLanguages' = cachedExcludedLanguages
    /\ \A languages \in ComparedCandidates, value \in ComparedQueries :
           sortedLanguages(languages, value)' = sortedLanguages(languages, value)
    /\ \A t \in ComparedInstants :
           cleanupExpiredStatistics(statistics, t, config.frequencyDaysRange)'
               = cleanupExpiredStatistics(statistics, t, config.frequencyDaysRange)

(* C12: no step that changes the draft (a write to the sort mode, to one   *)
(* of the three list strings or to one of the two numbers, or a destroy)   *)
(* changes the committed configuration, the cached token lists or the      *)
(* result of an ordering request or of a pruning pass; destroy leaves the  *)
(* committed configuration as it was and makes the draft equal to it.      *)
(* The cached lists are those of the committed configuration throughout.   *)
C12_DraftIsIsolated ==
    /\ [](/\ cachedCustomOrderLanguages = CustomOrderTokens
          /\ cachedOtherCustomLanguages = OtherCustomTokens
          /\ cachedExcludedLanguages = ExcludedTokens)
    /\ [][/\ tempConfig' # tempConfig => CommittedUntouched
          /\ destroyCallback => config' = config /\ tempConfig' = config]_vars

\* the six fields of the configuration
ConfigFields == {"sortMode", "customOrder", "frequencyTopCount", "frequencyDaysRange",
                 "otherCustomLanguages", "excludedLanguages"}

\* a draft that differs from the committed configuration in every field, after
\* an earlier confirmation, with a selection stored
C12_Witness ==
    /\ \A field \in ConfigFields : tempConfig[field] # config[field]
    /\ saved.config # <<>>
    /\ statistics.languages # <<>>

(* C13: confirm makes the committed configuration equal to the draft in    *)
(* every field and hands that record to saveData; the record saved last is *)
(* the committed one from then on, and a destroy after the confirm leaves  *)
(* it committed and the draft equal to it.                                 *)
C13_CommitReplacesWholeRecord ==
    /\ [][confirmCallback =>
              /\ \A field \in ConfigFields : config'[field] = tempConfig[field]
              /\ saved'.config = config'
              /\ tempConfig' = tempConfig]_vars
    /\ [](saved.config # <<>> => saved.config = config)
    /\ [][destroyCallback /\ saved.config # <<>> =>
              /\ config' = saved.config
              /\ tempConfig' = saved.config]_vars

\* a confirmed configuration that differs from the defaults in every field,
\* with the draft equal to it
C13_Witness ==
    /\ saved.config # <<>>
    /\ \A field \in ConfigFields : config[field] # withDefaults(EmptyConfigDoc)[field]
    /\ tempConfig = config

\* the texts that are no number within the limits:
\* "16" or "91", "0", "", "x", "-5", and for the top count "1e2" (100)
RejectedTopCountTexts ==
    {<<49, 54>>, <<48>>, <<>>, <<120>>, <<45, 53>>, <<49, 101, 50>>}
RejectedDaysRangeTexts == {<<57, 49>>, <<48>>, <<>>, <<120>>, <<45, 53>>}

(* C20: a write of frequencyTopCount outside 1..15, of frequencyDaysRange   *)
(* outside 1..90, or of a text that is no number leaves the draft as it    *)
(* was; from the defaults on, both numbers of the draft and of the         *)
(* committed configuration stay within their limits.                       *)
C20_OutOfRangeWritesAreIgnored ==
    /\ [](/\ tempConfig.frequencyTopCount \in MinTopCount..MaxTopCount
          /\ config.frequencyTopCount \in MinTopCount..MaxTopCount
          /\ tempConfig.frequencyDaysRange \in MinDaysRange..MaxDaysRange
          /\ config.frequencyDaysRange \in MinDaysRange..MaxDaysRange)
    /\ [][/\ (\E text \in RejectedTopCountTexts : setFrequencyTopCount(text))
                 => tempConfig' = tempConfig
          /\ (\E text \in RejectedDaysRangeTexts : setFrequencyDaysRange(text))
                 => tempConfig' = tempConfig]_vars

\* the list an ordering request gives with the lists parsed from the committed
\* configuration
OutputOfCommittedLists ==
    IF event.value # <<>>
    THEN matchLanguages(config.sortMode, CustomOrderTokens, OtherCustomTokens,
                        ExcludedTokens, event.input, event.value)
    ELSE IF config.sortMode = "custom"
    THEN customSorted(CustomOrderTokens, OtherCustomTokens, ExcludedTokens, event.input)
    ELSE frequencySorted(TopOfFrequencyOrder, OtherCustomTokens, ExcludedTokens,
                         event.input)

\* the cached lists are those of the committed configuration, and the ordering
\* request last handled used them
CachesAreCommittedLists ==
    /\ cachedCustomOrderLanguages = CustomOrderTokens
    /\ cachedOtherCustomLanguages = OtherCustomTokens
    /\ cachedExcludedLanguages = ExcludedTokens
    /\ event.handled => event.languages = OutputOfCommittedLists

(* C25 as stated: the three cached lists are always the parse of the list  *)
(* strings of the committed configuration, an ordering request uses no     *)
(* list of an earlier configuration, and a cached list is computed again   *)
(* only when its list string changed: every step that runs                 *)
(* parseAndCacheLanguages changes each of the three list strings.          *)
C25_CachesRecomputedOnlyOnChange ==
    /\ []CachesAreCommittedLists
    /\ [][confirmCallback =>
              /\ config'.customOrder # config.customOrder
              /\ config'.otherCustomLanguages # config.otherCustomLanguages
              /\ config'.excludedLanguages # config.excludedLanguages]_vars

(* C25 as amended: the three cached lists are always the parse of the list *)
(* strings of the committed configuration and an ordering request uses no  *)
(* list of an earlier configuration or of the draft.  The lists are        *)
(* computed on load and at every confirmation, all three of them: a cached *)
(* list changes only in a confirmation that changes its list string, and   *)
(* no other step changes a cached list or a committed list string.         *)
C25_CachesFollowCommittedStrings ==
    /\ []CachesAreCommittedLists
    /\ [][/\ cachedCustomOrderLanguages' # cachedCustomOrderLanguages =>
                 confirmCallback /\ config'.customOrder # config.customOrder
          /\ cachedOtherCustomLanguages' # cachedOtherCustomLanguages =>
                 confirmCallback /\ config'.otherCustomLanguages # config.otherCustomLanguages
          /\ cachedExcludedLanguages' # cachedExcludedLanguages =>
                 confirmCallback /\ config'.excludedLanguages # config.excludedLanguages
          /\ config' # config => confirmCallback]_vars

\* an ordering request in custom mode after a confirmation of three lists, with
\* a draft written since that differs in all three: the output is that of the
\* committed lists
C25_Witness ==
    /\ event.handled
    /\ event.value = <<>>
    /\ config.sortMode = "custom"
    /\ saved.config = config
    /\ cachedCustomOrderLanguages = <<Str_js>>
    /\ cachedOtherCustomLanguages = <<Str_py>>
    /\ cachedExcludedLanguages = <<Str_cp>>
    /\ tempConfig.customOrder = <<>>
    /\ tempConfig.otherCustomLanguages = <<>>
    /\ tempConfig.excludedLanguages = <<>>
    /\ event.languages = <<Str_js, Str_py>>

----------------------------------------------------------------------------
(* Properties of the parsing (checked under SpecParse)                     *)

\* the parsed customOrder, joined with commas and parsed again
ParsedAgain == parseLanguagesInput(join(cachedCustomOrderLanguages, <<44>>))

\* a token with every & spelled &amp;
AmpersandsSpelledOut(token) ==
    Flatten([i \in 1..Len(token) |-> IF token[i] = 38 THEN <<38, 97, 109, 112, 59>>
                                     ELSE <<token[i]>>])

\* the string holds no & and no <
PlainString(string) == \A i \in 1..Len(string) : string[i] \notin {38, 60}

(* C14 as stated: for every list string, parsing it, joining the tokens    *)
(* with commas and parsing the result again gives the same tokens, also    *)
(* when a segment holds & or <.                                            *)
C14_ParseIsIdempotent == ParsedAgain = cachedCustomOrderLanguages

(* C14 as amended: parsing the joined tokens again gives the same tokens   *)
(* for every list string that holds no & and no <; for any list string it  *)
(* gives the tokens with every & (those written by the first parse too)    *)
(* escaped once more, one token for one token.                             *)
C14_ParseIsIdempotentOnPlainStrings ==
    /\ cachedCustomOrderLanguages = parseLanguagesInput(config.customOrder)
    /\ PlainString(config.customOrder) => ParsedAgain = cachedCustomOrderLanguages
    /\ ParsedAgain = [i \in 1..Len(cachedCustomOrderLanguages) |->
                         AmpersandsSpelledOut(cachedCustomOrderLanguages[i])]

\* a confirmed list string that the parse changes in every way it can short of
\* escaping: ends trimmed, an inner space, a backtick, an empty segment, a tab
C14_Witness ==
    /\ config.customOrder = Str_rawList
    /\ saved.config # <<>>
    /\ cachedCustomOrderLanguages = <<<<97, 95, 98>>, <<99, 95, 100>>, <<101>>>>
    /\ ParsedAgain = cachedCustomOrderLanguages

\* the token holds an entity (&amp; or &lt;) at position k
EntityAt(token, k) ==
    \/ k + 4 <= Len(token) /\ SubSeq(token, k, k + 4) = Str_amp
    \/ k + 3 <= Len(token) /\ SubSeq(token, k, k + 3) = Str_lt

(* C22: no token of the parse is empty, holds a white space character of   *)
(* any kind (space, tab, line end) or a backtick, or holds a < ; every &   *)
(* of a token begins an entity written by the escape.                      *)
C22_TokensAreClean ==
    \A i \in 1..Len(cachedCustomOrderLanguages) :
        LET token == cachedCustomOrderLanguages[i]
        IN  /\ token # <<>>
            /\ \A k \in 1..Len(token) :
                   /\ token[k] \notin WhiteSpace \cup {96, 60}
                   /\ token[k] = 38 => EntityAt(token, k)

----------------------------------------------------------------------------
(* Properties of the window (checked under SpecWindow)                     *)

\* the selections of a language counted on the days from `first` on
RecordedSince(language, first) ==
    sumDates(selectionLog.counts,
             {key \in DOMAIN selectionLog.counts : key[1] = language /\ key[2] >= first})

\* the totalCount of a language, 0 when it is not tracked
TrackedTotal(language) ==
    IF hasLanguage(statistics.languages, language) THEN TotalOf(language) ELSE 0

\* every total is the number of selections counted on the days of the window
TotalsAreSelectionsInWindow ==
    \A language \in WindowSelections :
        TrackedTotal(language) = RecordedSince(language, FirstLiveDay)

\* a selection notification is handled to its end in this step
PruningStep ==
    /\ \E language \in WindowSelections : languageChange(language, MaxStored)
    /\ ~selectionLog'.thrown

(* C15: after a pruning pass on day t with window w, totalCount of every   *)
(* language is the number of its selections that were recorded on the days *)
(* d >= t - w, whatever selections and days came before; a language with   *)
(* none is not tracked.                                                    *)
C15_TotalCountsSelectionsInWindow ==
    [][TotalsAreSelectionsInWindow' \/ ~PruningStep]_vars

\* three selections on three days in a row within the window of 2 days, and
\* one more after all three have left the window: the total is 1
C15_Witness ==
    /\ config.frequencyDaysRange = 2
    /\ TrackedTotal(Str_py) = 1
    /\ loggedCount(selectionLog, Str_py, Today) = 1
    /\ RecordedSince(Str_py, 0) = 4
    /\ \E d \in 0..Today :
           /\ \A k \in 0..2 : loggedCount(selectionLog, Str_py, d + k) = 1
           /\ d + 2 < FirstLiveDay

\* the language has a stored day that is not expired
HasLiveDay(stats) == \E d \in DOMAIN stats.dates : d >= FirstLiveDay

(* C16: after the pruning pass, a language all of whose day entries were   *)
(* expired is neither in languages nor in frequencyOrder, and a language   *)
(* with a day entry that is not expired is in both.                        *)
C16_PruningRemovesExactlyTheEmpty ==
    [][\A language \in WindowSelections :
           languageChange(language, MaxStored) /\ ~selectionLog'.thrown =>
               \A i \in TrackedIndexes :
                   LET stats == statistics.languages[i]
                       kept == HasLiveDay(stats)
                               \/ (stats.language = language /\ trim(language) # <<>>)
                   IN  /\ hasLanguage(statistics'.languages, stats.language) <=> kept
                       /\ includes(statistics'.frequencyOrder, stats.language) <=> kept]_vars

\* the last pruning pass left one language out, all of whose selections are
\* older than the window, and kept another one without its older days
C16_Witness ==
    /\ selectionLog.notified
    /\ ~selectionLog.thrown
    /\ TotalsAreSelectionsInWindow
    /\ RecordedSince(Str_js, 0) >= 1
    /\ ~hasLanguage(statistics.languages, Str_js)
    /\ ~includes(statistics.frequencyOrder, Str_js)
    /\ hasLanguage(statistics.languages, Str_py)
    /\ RecordedSince(Str_py, 0) > TotalOf(Str_py)

\* the totalCount of a language after the step, 0 when it is not tracked
TrackedTotalAfter(language) ==
    IF hasLanguage(statistics'.languages, language)
    THEN languageStats(statistics'.languages, language).totalCount
    ELSE 0

\* the count stored for a language on a day, 0 when there is no such entry
StoredEntry(languages, language, day) ==
    IF hasLanguage(languages, language)
       /\ day \in DOMAIN languageStats(languages, language).dates
    THEN languageStats(languages, language).dates[day]
    ELSE 0

\* the days on which a selection can have been counted
Days == 0..dateString(MaxNow)

\* the pruning pass of this step kept the entries of the days from
\* Today - frequencyDaysRange on, with the counts logged, and no other entry
EntriesKeptFromCutoff ==
    \A language \in WindowSelections, day \in Days :
        /\ StoredEntry(statistics'.languages, language, day)
               = IF day >= FirstLiveDay THEN loggedCount(selectionLog', language, day) ELSE 0
        /\ day < FirstLiveDay =>
               ~(/\ hasLanguage(statistics'.languages, language)
                 /\ day \in DOMAIN languageStats(statistics'.languages, language).dates)
        /\ day >= FirstLiveDay /\ StoredEntry(statistics.languages, language, day) >= 1 =>
               /\ hasLanguage(statistics'.languages, language)
               /\ day \in DOMAIN languageStats(statistics'.languages, language).dates
               /\ TrackedTotalAfter(language) >= StoredEntry(statistics.languages, language, day)

(* C23: the pruning pass run on day t with window w removes a day entry if *)
(* and only if its day is earlier than t - w.  An entry of day t - w is    *)
(* kept and counted, so a selection recorded on day d is stored and        *)
(* counted after every pass run on the days d to d + w.                    *)
C23_EntryRemovedIffBeforeCutoff ==
    /\ [](\A language \in WindowSelections, day \in Days :
              StoredEntry(statistics.languages, language, day)
                  \in {0, loggedCount(selectionLog, language, day)})
    /\ [][EntriesKeptFromCutoff \/ ~PruningStep]_vars

\* selections were counted today, so the pass has run today: an entry of the
\* day Today - frequencyDaysRange is stored and counted, one of the day
\* before is gone
C23_Witness ==
    /\ \E language \in WindowSelections : loggedCount(selectionLog, language, Today) >= 1
    /\ FirstLiveDay >= 1
    /\ \E language \in WindowSelections :
           /\ StoredEntry(statistics.languages, language, FirstLiveDay) >= 1
           /\ TotalOf(language) > StoredEntry(statistics.languages, language, Today)
    /\ \E language \in WindowSelections :
           /\ loggedCount(selectionLog, language, FirstLiveDay - 1) >= 1
           /\ StoredEntry(statistics.languages, language, FirstLiveDay - 1) = 0

\* the statistics handed to saveData in this step are those before it with one
\* selection of the language added to the current day
RecordedAsClaimed(language) ==
    LET before == statistics.languages
        tracked == hasLanguage(before, language)
        oldTotal == IF tracked THEN languageStats(before, language).totalCount ELSE 0
        oldDates == IF tracked THEN languageStats(before, language).dates ELSE <<>>
        oldToday == IF Today \in DOMAIN oldDates THEN oldDates[Today] ELSE 0
    IN  /\ ~selectionLog'.thrown
        /\ saved'.statistics # <<>>
        /\ hasLanguage(saved'.statistics.languages, language)
        /\ LET after == saved'.statistics.languages
               new == languageStats(after, language)
           IN  /\ new.totalCount = oldTotal + 1
               /\ DOMAIN new.dates = DOMAIN oldDates \cup {Today}
               /\ new.dates[Today] = oldToday + 1
               /\ \A d \in DOMAIN oldDates \ {Today} : new.dates[d] = oldDates[d]
               /\ Len(after) = Len(before) + (IF tracked THEN 0 ELSE 1)
               /\ \A i \in 1..Len(before) :
                      before[i].language # language => after[i] = before[i]

(* C17: a selection of a language that is not blank adds exactly 1 to the  *)
(* day entry of the current day (created at 1 when absent) and to the      *)
(* totalCount of the language (the record created when absent), and leaves *)
(* every other language and every other day entry as they were.            *)
C17_SelectionCountsOnce ==
    [][\A language \in WindowSelections :
           trim(language) # <<>> /\ languageChange(language, MaxStored) =>
               RecordedAsClaimed(language)]_vars

\* a notification of the empty language or of one made of white space
BlankStep ==
    \E language \in WindowSelections : trim(language) = <<>> /\ languageChange(language, MaxStored)

(* C18 as stated: a selection notification with an empty or blank language *)
(* changes nothing in the statistics (no record, no count, no day entry,   *)
(* no frequencyOrder entry) and raises no error.                           *)
C18_BlankSelectionChangesNothing ==
    [][BlankStep => statistics' = statistics /\ ~selectionLog'.thrown]_vars

(* C18 as amended: a selection notification with an empty or blank         *)
(* language records nothing, saves nothing and raises no error, and runs   *)
(* the pruning pass: every language that stays keeps exactly its day       *)
(* entries that are not expired, with their counts, a language stays if it *)
(* has one, and nothing changes when no stored day entry is expired.       *)
C18_BlankSelectionOnlyPrunes ==
    [][BlankStep =>
           /\ ~selectionLog'.thrown
           /\ saved' = saved
           /\ selectionLog'.counts = selectionLog.counts
           /\ \A j \in 1..Len(statistics'.languages) :
                  \E i \in TrackedIndexes :
                      LET old == statistics.languages[i]
                          new == statistics'.languages[j]
                          live == {d \in DOMAIN old.dates : d >= FirstLiveDay}
                      IN  /\ new.language = old.language
                          /\ live # {}
                          /\ new.dates = [d \in live |-> old.dates[d]]
                          /\ new.totalCount = sumDates(old.dates, live)
           /\ \A i \in TrackedIndexes :
                  HasLiveDay(statistics.languages[i]) =>
                      hasLanguage(statistics'.languages, statistics.languages[i].language)
           /\ (\A i \in TrackedIndexes :
                   \A d \in DOMAIN statistics.languages[i].dates : d >= FirstLiveDay)
                  => statistics' = statistics]_vars

\* the days of the statistics saved last
SavedDays ==
    IF saved.statistics = <<>> THEN {}
    ELSE UNION {DOMAIN saved.statistics.languages[j].dates :
                    j \in 1..Len(saved.statistics.languages)}

\* the last notification was blank, and a day entry that was within the window
\* at the last recorded selection is expired now and gone, another language staying
C18_Witness ==
    /\ selectionLog.notified
    /\ trim(selectionLog.language) = <<>>
    /\ statistics.languages # <<>>
    /\ \E j \in 1..Len(saved.statistics.languages) :
           \E d \in DOMAIN saved.statistics.languages[j].dates :
               /\ \A e \in SavedDays : d >= e - config.frequencyDaysRange
               /\ d < FirstLiveDay
               /\ ~hasLanguage(statistics.languages, saved.statistics.languages[j].language)

\* the windows and the instants of the passes that are run twice: now and
\* every later day up to two days on
PassWindows == {1, 2}
PassInstants == {now + k * TicksPerDay : k \in 0..2}

\* the statistics after one pruning pass at instant t with window w
PrunedOnce(t, w) == cleanupExpiredStatistics(statistics, t, w)

(* C26: the pruning pass is idempotent.  Run twice in a row on the same    *)
(* day with the same window, it leaves the statistics (languages, day      *)
(* entries, totalCounts, frequencyOrder) as they are after the first run,  *)
(* from every reachable state; the statistics a notification leaves are    *)
(* not changed by one more pass.                                           *)
C26_PruningIsIdempotent ==
    /\ [](\A t \in PassInstants, w \in PassWindows :
              cleanupExpiredStatistics(PrunedOnce(t, w), t, w) = PrunedOnce(t, w))
    /\ [][PruningStep =>
              cleanupExpiredStatistics(statistics', now, config.frequencyDaysRange)
                  = statistics']_vars

\* statistics of which a first pass removes a language and deletes a day entry
\* of another one, which shortens the frequencyOrder
C26_Witness ==
    LET once == PrunedOnce(now, config.frequencyDaysRange)
    IN  /\ Len(once.languages) >= 1
        /\ Len(once.languages) < Len(statistics.languages)
        /\ \E i \in TrackedIndexes, j \in 1..Len(once.languages) :
               /\ once.languages[j].language = statistics.languages[i].language
               /\ once.languages[j].totalCount < statistics.languages[i].totalCount
        /\ Len(once.frequencyOrder) < Len(statistics.frequencyOrder)

\* a selection of a language that is not blank is recorded, saved and pruned
\* in this step
RecordingStep ==
    /\ \E language \in WindowSelections :
           trim(language) # <<>> /\ languageChange(language, MaxStored)
    /\ ~selectionLog'.thrown

(* C24: after a selection notification handled to its end (record, new     *)
(* frequencyOrder, save, pruning pass) the statistics handed last to       *)
(* saveData equal the statistics in memory: languages, day entries,        *)
(* totalCounts and frequencyOrder.                                         *)
C24_SavedStatisticsEqualMemory ==
    [][saved'.statistics = statistics' \/ ~RecordingStep]_vars

----------------------------------------------------------------------------
(* Properties of the limit on the segments (checked under SpecLimit)       *)

\* the segments of the committed customOrder and those within the limit
CustomOrderSegments == split(config.customOrder)
SegmentsWithinLimit ==
    IF Len(CustomOrderSegments) < MaxParts THEN Len(CustomOrderSegments) ELSE MaxParts

\* the committed customOrder up to the comma that ends its segment number MaxParts
WithinLimitText ==
    LET raw == config.customOrder
        commas == SelectSeq([i \in 1..Len(raw) |-> i], LAMBDA i : raw[i] = 44)
    IN  IF Len(commas) < MaxParts THEN raw ELSE SubSeq(raw, 1, commas[MaxParts] - 1)

(* C21: the parse returns at most 300 tokens, and every token is the       *)
(* canonical form of one of the first 300 segments of the list string: the *)
(* segments after the 300th contribute nothing, also when some of the      *)
(* first 300 are empty and discarded.                                      *)
C21_OnlyFirstSegmentsContribute ==
    /\ Len(cachedCustomOrderLanguages) <= MaxParts
    /\ Len(cachedCustomOrderLanguages) <= SegmentsWithinLimit
    /\ \A i \in 1..Len(cachedCustomOrderLanguages) :
           \E k \in 1..SegmentsWithinLimit :
               cachedCustomOrderLanguages[i] = cleanPart(CustomOrderSegments[k])
    /\ cachedCustomOrderLanguages = parseLanguagesInput(WithinLimitText)

\* a list with more segments than the limit, two of the first 300 discarded,
\* and a token in a segment after the 300th that is not in the output
C21_Witness ==
    /\ Len(CustomOrderSegments) > MaxParts
    /\ Len(cachedCustomOrderLanguages) = MaxParts - 2
    /\ \E k \in (MaxParts + 1)..Len(CustomOrderSegments) :
           cleanPart(CustomOrderSegments[k]) = <<98>>
    /\ ~includes(cachedCustomOrderLanguages, <<98>>)

----------------------------------------------------------------------------
(* The order and the duplicates of the parse (checked under SpecParse)     *)

\* the segments within the limit whose canonical form is not empty
TokenSegments ==
    {k \in 1..SegmentsWithinLimit : cleanPart(CustomOrderSegments[k]) # <<>>}

(* C27: the parse keeps the canonical tokens that are not empty in the     *)
(* order of their segments and removes no duplicate: the token of the      *)
(* n-th such segment is the n-th token of the output, a token that k of    *)
(* the first 300 segments give occurs k times, and an empty or absent list *)
(* string gives the empty list.                                            *)
C27_OrderKeptDuplicatesKept ==
    /\ Len(cachedCustomOrderLanguages) = Cardinality(TokenSegments)
    /\ \A k \in TokenSegments :
           cachedCustomOrderLanguages[Cardinality({j \in TokenSegments : j <= k})]
               = cleanPart(CustomOrderSegments[k])
    /\ \A token \in Elements(cachedCustomOrderLanguages) :
           Occurrences(cachedCustomOrderLanguages, token)
               = Cardinality({k \in TokenSegments : cleanPart(CustomOrderSegments[k]) = token})
    /\ config.customOrder = <<>> => cachedCustomOrderLanguages = <<>>

\* a confirmed list with one token in three segments, an empty segment and a
\* token between them that sorts before it
C27_Witness ==
    /\ config.customOrder = Str_rawRepeats
    /\ saved.config # <<>>
    /\ cachedCustomOrderLanguages = <<<<97>>, Str_amp, <<97>>, <<97>>>>
    /\ Occurrences(cachedCustomOrderLanguages, <<97>>) = 3

----------------------------------------------------------------------------
(* The first run (checked under SpecStatistics, which starts with no       *)
(* stored document)                                                        *)

\* the configuration the claim gives for a first run
FirstRunConfiguration ==
    [sortMode |-> "frequency", customOrder |-> <<>>, frequencyTopCount |-> 5,
     frequencyDaysRange |-> 30, otherCustomLanguages |-> <<>>, excludedLanguages |-> <<>>]

(* C28: with no stored configuration and no stored statistics, loading     *)
(* gives the sort mode frequency, empty customOrder, otherCustomLanguages  *)
(* and excludedLanguages, frequencyTopCount 5, frequencyDaysRange 30, a    *)
(* draft equal to that configuration, and statistics with no language and  *)
(* an empty frequencyOrder.  These stay until a confirmation or a recorded *)
(* selection, and the handlers run on them.                                *)
C28_FirstRunDefaults ==
    /\ config = FirstRunConfiguration
    /\ tempConfig = FirstRunConfiguration
    /\ statistics = [frequencyOrder |-> <<>>, languages |-> <<>>]
    /\ cachedCustomOrderLanguages = <<>>
    /\ cachedOtherCustomLanguages = <<>>
    /\ cachedExcludedLanguages = <<>>
    /\ [](saved.config = <<>> => config = FirstRunConfiguration)
    /\ [](saved.statistics = <<>> =>
              statistics = [frequencyOrder |-> <<>>, languages |-> <<>>])

\* an ordering request handled on the first run, before anything was saved or
\* typed: the candidates come back as they are, in ascending order
C28_Witness ==
    /\ saved = NothingSaved
    /\ now = 0
    /\ config = FirstRunConfiguration
    /\ tempConfig = config
    /\ statistics.languages = <<>>
    /\ event.handled
    /\ event.languages = <<Str_js, Str_py>>

(* C29: in every state between two handlers, totalCount of every tracked   *)
(* language is the sum of all its stored day entries, expired or not,      *)
(* every stored day entry is at least 1, and every tracked language has a  *)
(* totalCount of at least 1.                                               *)
C29_CountsAreSumsOfPositiveEntries ==
    \A i \in TrackedIndexes :
        LET stats == statistics.languages[i]
        IN  /\ stats.totalCount = sumDates(stats.dates, DOMAIN stats.dates)
            /\ \A date \in DOMAIN stats.dates : stats.dates[date] >= 1
            /\ stats.totalCount >= 1
            /\ DOMAIN stats.dates # {}

\* a language with an entry of 2 that is expired and still stored, and an
\* entry that is not expired: its totalCount counts both
C29_Witness ==
    \E i \in TrackedIndexes :
        LET stats == statistics.languages[i]
        IN  /\ \E date \in DOMAIN stats.dates : date < FirstLiveDay /\ stats.dates[date] = 2
            /\ \E date \in DOMAIN stats.dates : date >= FirstLiveDay
            /\ stats.totalCount = 3

----------------------------------------------------------------------------
(* Two selections on one day (checked under SpecWindow)                    *)

\* the pairs of languages notified: two names, a blank one and the name of a
\* member of Object.prototype
CommutedPairs ==
    {<<Str_py, Str_js>>, <<Str_py, Str_blank>>, <<Str_py, Str_constructor>>,
     <<Str_js, Str_blank>>, <<Str_js, Str_constructor>>, <<Str_blank, Str_constructor>>}

\* the last instant of the current day
EndOfToday == (Today + 1) * TicksPerDay - 1

\* the statistics after `first` is notified now and `second` at the end of the day
AfterBoth(first, second) ==
    changedStatistics(changedStatistics(statistics, first, now, config.frequencyDaysRange),
                      second, EndOfToday, config.frequencyDaysRange)

\* the records of a languages map, whatever the order of its keys
Records(languages) == {languages[i] : i \in 1..Len(languages)}

\* the totalCount a languages map holds for a tracked language
CountIn(languages, language) == languageStats(languages, language).totalCount

\* the two outcomes hold the same records, and their frequencyOrders hold the
\* same languages with the same totalCount at every position
SameCounters(one, other) ==
    /\ Len(one.languages) = Len(other.languages)
    /\ Records(one.languages) = Records(other.languages)
    /\ Len(one.frequencyOrder) = Len(other.frequencyOrder)
    /\ Elements(one.frequencyOrder) = Elements(other.frequencyOrder)
    /\ \A k \in 1..Len(one.frequencyOrder) :
           CountIn(one.languages, one.frequencyOrder[k])
               = CountIn(other.languages, other.frequencyOrder[k])

\* the statistics of the next state are those changedStatistics gives
ChangedAsComputed ==
    \E language \in WindowSelections :
        statistics' = changedStatistics(statistics, language, now, config.frequencyDaysRange)

\* a selection notification is handled in this step
AnySelectionStep ==
    /\ now' = now
    /\ \E language \in WindowSelections : languageChange(language, MaxStored)

(* C33: two selection notifications handled on the same day give the same  *)
(* languages map in either order (the same records, day entries and        *)
(* totalCounts); the two frequencyOrders hold the same languages and       *)
(* differ at most in the order of languages of equal totalCount.           *)
C33_SelectionsCommute ==
    /\ [](\A pair \in CommutedPairs :
              SameCounters(AfterBoth(pair[1], pair[2]), AfterBoth(pair[2], pair[1])))
    /\ [][ChangedAsComputed \/ ~AnySelectionStep]_vars

\* both languages are tracked with expired entries only: either order of the
\* two selections prunes them and records both anew, with the same counters
\* and the two languages in the other order in frequencyOrder
C33_Witness ==
    /\ hasLanguage(statistics.languages, Str_py)
    /\ hasLanguage(statistics.languages, Str_js)
    /\ \A i \in TrackedIndexes : ~HasLiveDay(statistics.languages[i])
    /\ Records(AfterBoth(Str_py, Str_js).languages)
           = Records(AfterBoth(Str_js, Str_py).languages)
    /\ AfterBoth(Str_py, Str_js).frequencyOrder = <<Str_py, Str_js>>
    /\ AfterBoth(Str_js, Str_py).frequencyOrder = <<Str_js, Str_py>>

====
